---- MODULE Spec2Model ----
(***************************************************************************)
(* A model of dis_snek.client.Snake: the gateway reconnect loop            *)
(* (_ws_connect, stop), and the event dispatcher with its listener tasks   *)
(* and one-shot waits (dispatch, _queue_task, wait_for).                   *)
(***************************************************************************)
EXTENDS Integers, Sequences, FiniteSets, TLC

(***************************************************************************)
(* Bounds of the model.                                                    *)
(***************************************************************************)
\* the largest gateway sequence number a session reaches
MaxSeq == 2
\* the number of distinct session ids the gateway hands out
MaxSession == 2
\* _on_websocket_ready handler tasks pending at the same time
MaxReadyTasks == 1
\* listeners registered in one run
MaxListeners == 2
\* dispatch calls made through Dispatch in one run
MaxDispatch == 2
\* listener tasks created in one run
MaxTasks == 3
\* wait_for calls made in one run
MaxWaits == 3
\* wait_for_component calls that register a wait in one run
MaxComponentWaits == 2
\* guilds the bot is in
MaxGuilds == 1
\* application command objects created in one run
MaxCommands == 2
\* commands the remote registry holds when the program starts
MaxRemote == 1
\* synchronise_interactions passes made in one run
MaxPasses == 2
\* handshake-complete events handled in one run
MaxReady == 2
\* the guild ids a handshake payload and the guild cache can hold
MaxHandshakeGuilds == 2
\* raw_interaction_create and message_create events routed in one run
MaxRouted == 1
\* the largest payload an event carries
MaxPayload == 1

(***************************************************************************)
(* Program constants.                                                      *)
(***************************************************************************)
\* None, the value of params["session_id"] and params["sequence"] of a fresh session
None == 0
\* await asyncio.sleep(5)
SleepDelay == 5
\* ex.code == 1000
NormalClose == 1000
\* ex.code == 4011 / 4013 / 4014: the three codes answered with a SnakeException
FatalCloseCodes == {4011, 4013, 4014}
\* ex.errno in (54, 10054)
ResetErrnos == {54, 10054}

\* the close codes the remote end is let to send: 1000, the fatal three,
\* and two of the codes the loop has no branch for
CloseCodes == {NormalClose, 1001, 4000} \cup FatalCloseCodes
\* the errno values of an OSError: the two reset codes and one other (ECONNRESET
\* of Linux is 104, which the loop does not list)
Errnos == ResetErrnos \cup {104}

SessionIds == 1..MaxSession

\* GLOBAL_SCOPE, the scope of the commands of no guild in particular
GLOBAL_SCOPE == 0

\* the ids of the guilds the bot is in: self._user._guild_ids, the keys of cache.guild_cache
Guilds == 1..MaxGuilds

Scopes == Guilds \cup {GLOBAL_SCOPE}

VARIABLES
    pc,              \* where _ws_connect is: head, connecting, running, sleeping, returned, raised
    params,          \* the dict params of _ws_connect: resume, session_id, sequence
    ws,              \* self.ws: MISSING, or the WebsocketClient of the last successful connect
    _ready,          \* self._ready
    _closed,         \* self._closed
    closing,         \* ws.close(code) was called on the running session
    readyTasks,      \* _on_websocket_ready tasks started and not yet finished
    err,             \* the exception _ws_connect ended with (pc = "raised")
    lastEnd,         \* history: how the last connection (attempt) ended and what the handler did
    slept,           \* history: the time slept since the last end
    made,            \* history: a connect call was made since the last end
    attempt,         \* history: the arguments of the last WebsocketClient.connect call
    stopped,         \* history: stop() was called
    listeners,       \* self.listeners: event name -> list of listeners
    waits,           \* self.waits: event name -> list of Wait
    futures,         \* the futures wait_for created, by creation order
    tasks,           \* the tasks _queue_task created, by creation order
    errors,          \* the calls of on_error made by _async_wrap, in order
    calls,           \* history: the dispatch calls made through Dispatch
    wfc,             \* history: the last wait_for_component call and how it ended
    del_unused_app_cmd,   \* self.del_unused_app_cmd
    objs,            \* the InteractionCommand objects created, by creation order
    interactions,    \* self.interactions: scope -> resolved name -> command (a reference into objs)
    _interaction_scopes,  \* self._interaction_scopes: command id -> scope, as a set of pairs
    remote,          \* the remote registry: scope -> the commands registered there
    nextId,          \* the next command id the remote registry hands out
    lastPass,        \* history: the last synchronise_interactions pass
    clean,           \* history: the last pass ended normally and nothing changed since
    commands,        \* self.commands: the message commands, by name
    _component_callbacks,  \* self._component_callbacks: custom_id -> callback, as a set of pairs
    gathered,        \* _gather_commands was called
    inv,             \* history: the last event routed and what the router did with it
    member_cache,    \* cache.member_cache: the (guild id, user id) keys it holds
    user_cache,      \* cache.user_cache: the user ids it holds
    role_cache,      \* cache.role_cache: the role ids it holds
    channel_cache,   \* cache.channel_cache: the channel ids it holds
    resolved,        \* history: the last option get_context resolved, and to what
    guild_cache,     \* cache.guild_cache: the guild ids it holds
    _guild_event,    \* self._guild_event: the asyncio.Event is set
    readiness,       \* _on_websocket_ready: where it is, its expected_guilds, and what it did
    reg              \* history: the last registration call and how it ended

wsVars == <<pc, params, ws, _ready, _closed, closing, readyTasks, err,
            lastEnd, slept, made, attempt, stopped>>

dispVars == <<listeners, waits, futures, tasks, errors, calls>>

syncVars == <<del_unused_app_cmd, objs, interactions, _interaction_scopes, remote, nextId,
              lastPass, clean>>

routerVars == <<commands, _component_callbacks, gathered, inv>>

optVars == <<member_cache, user_cache, role_cache, channel_cache, resolved>>

readyVars == <<guild_cache, _guild_event, readiness>>

newVars == <<optVars, readyVars, reg>>

extVars == <<wfc, syncVars, routerVars, newVars>>

vars == <<pc, params, ws, _ready, _closed, closing, readyTasks, err,
          lastEnd, slept, made, attempt, stopped,
          listeners, waits, futures, tasks, errors, calls, wfc,
          del_unused_app_cmd, objs, interactions, _interaction_scopes, remote, nextId,
          lastPass, clean, commands, _component_callbacks, gathered, inv,
          member_cache, user_cache, role_cache, channel_cache, resolved,
          guild_cache, _guild_event, readiness, reg>>

(***************************************************************************)
(* Exceptions.  One record shape for all: code is the close code of a      *)
(* WebSocketClosed and the errno of an OSError, resume the flag of a       *)
(* WebSocketRestart.                                                       *)
(***************************************************************************)
Exc(k, c, r) == [kind |-> k, code |-> c, resume |-> r]

NoErr == Exc("none", 0, FALSE)

\* what WebsocketClient.connect and ws.run are let to raise
Exceptions ==
    {Exc("WebSocketRestart", 0, r) : r \in BOOLEAN}
    \cup {Exc("WebSocketClosed", c, FALSE) : c \in CloseCodes}
    \cup {Exc("OSError", e, FALSE) : e \in Errnos}
    \cup {Exc(k, 0, FALSE) : k \in {"GatewayNotFound", "ClientError", "TimeoutError"}}
    \cup {Exc("Exception", 0, FALSE), Exc("CancelledError", 0, FALSE)}

\* the classes of the clause  except (OSError, GatewayNotFound, aiohttp.ClientError,
\* asyncio.TimeoutError, WebSocketClosed)
TransportKinds == {"OSError", "GatewayNotFound", "ClientError", "TimeoutError", "WebSocketClosed"}

\* self.ws = MISSING: reading an attribute of MISSING gives None
MissingWs == [exists |-> FALSE, session_id |-> None, sequence |-> None]

\* params.update(resume=True, session_id=self.ws.session_id, sequence=self.ws.sequence)
ResumeParams(w) == [resume |-> TRUE, session_id |-> w.session_id, sequence |-> w.sequence]

\* params.update(resume=False, session_id=None, sequence=None); also params as first built
FreshParams == [resume |-> FALSE, session_id |-> None, sequence |-> None]

\* what one except clause does: the Disconnect events it dispatches, the params it
\* leaves, how the iteration goes on (continue, sleep, return, raise), and what it raises
Outcome(d, p, n, e) == [disc |-> d, params |-> p, next |-> n, err |-> e]

\* a variant of OnWebSocketRestart in which the non-resume restart also goes on
\* with  continue  and so skips the sleep
OnWebSocketRestart_NoSleep(ex, rdy, w, p) ==
    IF ex.resume
    THEN Outcome(1, ResumeParams(w), "continue", NoErr)
    ELSE Outcome(1, FreshParams, "continue", NoErr)

\* a variant of OnWebSocketRestart that resumes with the session id and sequence
\* still held in params instead of those of self.ws
OnWebSocketRestart_StaleSession(ex, rdy, w, p) ==
    IF ex.resume
    THEN Outcome(1, [p EXCEPT !.resume = TRUE], "continue", NoErr)
    ELSE Outcome(1, FreshParams, "sleep", NoErr)

\* except WebSocketRestart as ex
OnWebSocketRestart(ex, rdy, w, p) ==
    IF ex.resume
    THEN Outcome(1, ResumeParams(w), "continue", NoErr)
    ELSE Outcome(1, FreshParams, "sleep", NoErr)

\* a variant of OnWebSocketClosed without the  continue  of the ready branch:
\* control falls through to the  raise
OnWebSocketClosed_NoContinue(ex, rdy, w, p) ==
    IF ex.code = NormalClose
    THEN IF rdy
         THEN Outcome(1, ResumeParams(w), "raise", ex)
         ELSE Outcome(1, p, "return", NoErr)
    ELSE IF ex.code \in FatalCloseCodes
         THEN Outcome(1, p, "raise", Exc("SnakeException", ex.code, FALSE))
         ELSE Outcome(1, p, "raise", ex)

\* a variant of OnWebSocketClosed without the final  raise: an unlisted close
\* code falls through to the fresh reconnect
OnWebSocketClosed_NoRaise(ex, rdy, w, p) ==
    IF ex.code = NormalClose
    THEN IF rdy
         THEN Outcome(1, ResumeParams(w), "continue", NoErr)
         ELSE Outcome(1, p, "return", NoErr)
    ELSE IF ex.code \in FatalCloseCodes
         THEN Outcome(1, p, "raise", Exc("SnakeException", ex.code, FALSE))
         ELSE Outcome(1, FreshParams, "sleep", NoErr)

\* a variant of OnWebSocketClosed that does not test self._ready
OnWebSocketClosed_NoReadyTest(ex, rdy, w, p) ==
    IF ex.code = NormalClose
    THEN Outcome(1, ResumeParams(w), "continue", NoErr)
    ELSE IF ex.code \in FatalCloseCodes
         THEN Outcome(1, p, "raise", Exc("SnakeException", ex.code, FALSE))
         ELSE Outcome(1, p, "raise", ex)

\* if isinstance(ex, WebSocketClosed): ...
OnWebSocketClosed(ex, rdy, w, p) ==
    IF ex.code = NormalClose
    THEN IF rdy
         THEN Outcome(1, ResumeParams(w), "continue", NoErr)
         ELSE Outcome(1, p, "return", NoErr)
    ELSE IF ex.code \in FatalCloseCodes
         THEN Outcome(1, p, "raise", Exc("SnakeException", ex.code, FALSE))
         ELSE Outcome(1, p, "raise", ex)

\* a variant of OnTransportError that knows errno 54 only
OnTransportError_OneErrno(ex, rdy, w, p) ==
    IF ex.kind = "WebSocketClosed"
    THEN OnWebSocketClosed(ex, rdy, w, p)
    ELSE IF ex.kind = "OSError" /\ ex.code = 54
         THEN Outcome(1, ResumeParams(w), "continue", NoErr)
         ELSE Outcome(1, FreshParams, "sleep", NoErr)

\* a variant of OnTransportError whose reset branch has no  continue: it falls
\* through to the fresh reconnect and the sleep
OnTransportError_ResetSleeps(ex, rdy, w, p) ==
    IF ex.kind = "WebSocketClosed"
    THEN OnWebSocketClosed(ex, rdy, w, p)
    ELSE Outcome(1, FreshParams, "sleep", NoErr)

\* except (OSError, GatewayNotFound, aiohttp.ClientError, asyncio.TimeoutError, WebSocketClosed) as ex
OnTransportError(ex, rdy, w, p) ==
    IF ex.kind = "WebSocketClosed"
    THEN OnWebSocketClosed(ex, rdy, w, p)
    ELSE IF ex.kind = "OSError" /\ ex.code \in ResetErrnos
         THEN Outcome(1, ResumeParams(w), "continue", NoErr)
         ELSE Outcome(1, FreshParams, "sleep", NoErr)

\* a variant of OnException that keeps the session: it resumes instead of
\* starting afresh
OnException_Resume(ex, rdy, w, p) ==
    Outcome(1, ResumeParams(w), "sleep", NoErr)

\* except Exception as e
OnException(ex, rdy, w, p) ==
    Outcome(1, FreshParams, "sleep", NoErr)

\* the try statement of the loop body, for an exception raised inside it;
\* asyncio.CancelledError is no Exception and no clause catches it
HandleEnd(ex, rdy, w, p) ==
    IF ex.kind = "WebSocketRestart" THEN OnWebSocketRestart(ex, rdy, w, p)
    ELSE IF ex.kind \in TransportKinds THEN OnTransportError(ex, rdy, w, p)
    ELSE IF ex.kind = "Exception" THEN OnException(ex, rdy, w, p)
    ELSE Outcome(0, p, "raise", ex)

\* where the loop is after one except clause ran
PcAfter(n) ==
    IF n = "continue" THEN "head"
    ELSE IF n = "sleep" THEN "sleeping"
    ELSE IF n = "return" THEN "returned"
    ELSE "raised"

\* the history record of one end
EndRecord(ex, active, rdy, w, o) ==
    [kind |-> ex.kind, code |-> ex.code, resume |-> ex.resume, active |-> active,
     ready |-> rdy, sid |-> w.session_id, seq |-> w.sequence,
     disc |-> o.disc, next |-> o.next]

NoEnd ==
    [kind |-> "none", code |-> 0, resume |-> FALSE, active |-> FALSE,
     ready |-> FALSE, sid |-> None, seq |-> None, disc |-> 0, next |-> "none"]

NoAttempt == [resume |-> FALSE, session_id |-> None, sequence |-> None, delay |-> 0]

(***************************************************************************)
(* The dispatcher: listeners, the tasks _queue_task creates, and waits.    *)
(***************************************************************************)
\* event.resolved_name of the events of the model
EventNames == {"disconnect", "component"}

Payloads == 0..MaxPayload

\* an event: its resolved name, its payload, and len(event.__attrs_attrs__), which
\* is 1 for an event class that declares no field of its own (payload 0)
Event(n, d) == [name |-> n, data |-> d, attrs |-> IF d = 0 THEN 1 ELSE 2]

Events == {Event(n, d) : n \in EventNames, d \in Payloads}

\* events.Disconnect(): an event without fields of its own
DisconnectEvent == Event("disconnect", 0)

\* the predicates given to wait_for, each as the set of payloads it accepts
\* (checks=MISSING accepts every event)
Checks == SUBSET Payloads

\* how a listener coroutine ends: it returns, it raises an Exception, or it is cancelled
TaskOutcomes == {"ok", "raise", "cancel"}

\* the list without its element at Python index idx (0-based): list.pop(idx)
Pop(list, idx) ==
    [k \in 1..(Len(list) - 1) |-> IF k <= idx THEN list[k] ELSE list[k + 1]]

\* for idx in index_to_remove: _waits.pop(idx)
\* list.pop raises IndexError for an index that is not in the list; the pops made
\* before it stay made
RECURSIVE PopEach(_, _)
PopEach(list, idxs) ==
    IF idxs = <<>> THEN [list |-> list, raised |-> FALSE]
    ELSE IF Head(idxs) >= Len(list) THEN [list |-> list, raised |-> TRUE]
    ELSE PopEach(Pop(list, Head(idxs)), Tail(idxs))

\* Wait.__call__(event): the wait's predicate on the event
WaitCall(w, ev) == ev.data \in w.checks

\* for i, _wait in enumerate(_waits): ... index_to_remove.append(i)
RECURSIVE IndexToRemove(_, _, _)
IndexToRemove(ws_, ev, i) ==
    IF i > Len(ws_) THEN <<>>
    ELSE IF WaitCall(ws_[i], ev)
         THEN <<i - 1>> \o IndexToRemove(ws_, ev, i + 1)
         ELSE IndexToRemove(ws_, ev, i + 1)

\* the futures after every wait of ws_ the event satisfies resolved its own
Resolve(futs, ws_, ev) ==
    [f \in 1..Len(futs) |->
        IF /\ futs[f].state = "pending"
           /\ \E i \in 1..Len(ws_) : ws_[i].fut = f /\ WaitCall(ws_[i], ev)
        THEN [state |-> "done", result |-> ev]
        ELSE futs[f]]

\* _queue_task(coro, event): asyncio.create_task(_async_wrap(coro, event))
QueueTask(coro, event, call) ==
    [call |-> call, listener |-> coro, event |-> event,
     state |-> "pending", outcome |-> "none", invoked |-> "none"]

\* for _listen in listeners: self._queue_task(_listen, event)
QueueAll(ls, event, call) ==
    [i \in 1..Len(ls) |-> QueueTask(ls[i], event, call)]

\* a variant of AsyncWrap without the clause  except asyncio.CancelledError: pass
AsyncWrap_CancelReported(t, i, out) ==
    [task |-> [t EXCEPT !.state = "done", !.outcome = out,
                        !.invoked = IF t.event.attrs = 1 THEN "noargs" ELSE "event"],
     errs |-> IF out \in {"raise", "cancel"} THEN <<[source |-> t.event, task |-> i]>> ELSE <<>>]

\* _async_wrap for task t (the i-th created) whose coroutine ends with out:
\* the finished task and the on_error calls made
AsyncWrap(t, i, out) ==
    [task |-> [t EXCEPT !.state = "done", !.outcome = out,
                        !.invoked = IF t.event.attrs = 1 THEN "noargs" ELSE "event"],
     errs |-> IF out = "raise" THEN <<[source |-> t.event, task |-> i]>> ELSE <<>>]

\* dispatch(event): the tasks, waits and futures it leaves and whether it raised
DispatchResult(ev, call) ==
    LET ws_ == waits[ev.name]
        rem == PopEach(ws_, IndexToRemove(ws_, ev, 1))
    IN  [tasks |-> tasks \o QueueAll(listeners[ev.name], ev, call),
         waits |-> [waits EXCEPT ![ev.name] = rem.list],
         futures |-> Resolve(futures, ws_, ev),
         raised |-> rem.raised]

\* the exception that leaves dispatch when a pop fails
IndexError == Exc("IndexError", 0, FALSE)

NoEvent == [name |-> "none", data |-> 0, attrs |-> 1]

\* the message ids and the custom ids a caller of wait_for_component names
MessageIds == {1, 2}

CustomIds == {1, 2}

\* event.context of a Component event, as far as _check reads it: the id of the
\* message the component is on and the component's custom_id
ContextOf(d) == [message_id |-> 1 + (d % 2), custom_id |-> 1 + ((d \div 2) % 2)]

\* def _check(event): the payloads the predicate built by wait_for_component
\* accepts, for the message ids, the custom ids and the check it was given
\* (an empty set of ids is no filter)
ComponentCheck(message_ids, custom_ids, check) ==
    {d \in Payloads :
        LET ctx == ContextOf(d)
            wanted_message == message_ids = {} \/ ctx.message_id \in message_ids
            wanted_component == custom_ids = {} \/ ctx.custom_id \in custom_ids
        IN  wanted_message /\ wanted_component /\ d \in check}

\* a variant of NoFilters that looks at messages only
NoFilters_MessagesOnly(messages, components) == messages = {}

\* if not (messages or components): both None or empty
NoFilters(messages, components) == messages = {} /\ components = {}

NoComponentWait ==
    [called |-> FALSE, messages |-> {}, components |-> {}, raised |-> "none",
     before |-> <<>>, after |-> <<>>, futures |-> 0]

(***************************************************************************)
(* Application commands: the local tables, the remote registry, and the    *)
(* reconciliation of the two (_cache_interactions, synchronise_interactions)*)
(***************************************************************************)
\* a command id as the remote registry sends it: a JSON string
IdOf(n) == <<"str", n>>

\* str(x)
Str(x) == <<"str", x[2]>>

\* cmd_id of a command no id was recorded for
NoId == <<"none", 0>>

\* the commands a program declares: the plain command A, and the command B as
\* its sub-command "s" and as the sub-command "t" of its group "g"
Declarations == {<<"A", "", "">>, <<"B", "", "s">>, <<"B", "g", "t">>}

\* command.scopes, as the program gives them: one scope, or a guild and GLOBAL_SCOPE
ScopeLists ==
    {<<s>> : s \in Scopes} \cup {<<g, GLOBAL_SCOPE>> : g \in Guilds}

\* command.permissions, by the guilds they are for: none, or those for one guild
PermissionSets == {{}} \cup {{g} : g \in Guilds}

\* the scopes whose calls are answered Forbidden during one pass: none or one
ForbiddenSets == {{}} \cup {{s} : s \in Scopes}

\* the names of the commands the remote registry holds when the program starts:
\* one the program declares and one it does not
RemoteNames == {"A", "X"}

\* a new InteractionCommand
Command(d, scopes, permissions, autocomplete) ==
    [name |-> d[1], group |-> d[2], sub |-> d[3], scopes |-> scopes,
     permissions |-> permissions, autocomplete |-> autocomplete, cmd_id |-> NoId]

\* command.resolved_name: the name, the group name and the sub-command name joined
ResolvedName(c) == <<c.name, c.group, c.sub>>

\* the elements of a sequence
Range(seq) == {seq[i] : i \in 1..Len(seq)}

\* the keys of self.interactions
ScopeKeys(inter) == {inter[i].scope : i \in 1..Len(inter)}

\* self.interactions.get(scope, {}).values(), as references into objs
CmdsOf(inter, s) ==
    IF s \in ScopeKeys(inter)
    THEN inter[CHOOSE i \in 1..Len(inter) : inter[i].scope = s].cmds
    ELSE <<>>

\* the resolved names registered under scope s
NamesOf(o, inter, s) == {ResolvedName(o[c]) : c \in Range(CmdsOf(inter, s))}

\* self.interactions after  self.interactions[scope][command.resolved_name] = command
PutCommand(inter, s, c) ==
    IF s \in ScopeKeys(inter)
    THEN [i \in 1..Len(inter) |->
            IF inter[i].scope = s THEN [inter[i] EXCEPT !.cmds = Append(@, c)] ELSE inter[i]]
    ELSE Append(inter, [scope |-> s, cmds |-> <<c>>])

\* for scope in command.scopes: ... of add_interaction, from the i-th scope on:
\* the table it leaves and whether it raised ValueError
RECURSIVE AddToScopes(_, _, _, _, _)
AddToScopes(o, inter, c, scopes, i) ==
    IF i > Len(scopes) THEN [interactions |-> inter, raised |-> FALSE]
    ELSE IF ResolvedName(o[c]) \in NamesOf(o, inter, scopes[i])
         THEN [interactions |-> inter, raised |-> TRUE]
         ELSE AddToScopes(o, PutCommand(inter, scopes[i], c), c, scopes, i + 1)

\* the dict m after m[p[1]] = p[2] for every pair p of ps (the keys of ps are distinct)
MapPutAll(m, ps) == {p \in m : \A q \in ps : q[1] # p[1]} \cup ps

\* m.get(k), as the set of the values found: empty when the key is not there
MapGet(m, k) == {p[2] : p \in {q \in m : q[1] = k}}

\* InteractionMissingAccess(scope), and no exception
MissingAccess(s) == [kind |-> "InteractionMissingAccess", scope |-> s]

NoRaise == [kind |-> "none", scope |-> GLOBAL_SCOPE]

\* the remote commands of the list resp that carry name n
RemoteNamed(resp, n) == {r \in resp : r.name = n}

\* the first loop of _cache_interactions, from the i-th key of self.interactions on:
\* a Forbidden answer (scope in fb) raises InteractionMissingAccess; otherwise every
\* local command found remotely by its name gets the remote id, and the id is
\* entered in the scope map
RECURSIVE CacheLocalScopes(_, _, _, _, _, _)
CacheLocalScopes(o, m, inter, rem, fb, i) ==
    IF i > Len(inter) THEN [objs |-> o, map |-> m, raised |-> NoRaise]
    ELSE LET s == inter[i].scope
             refs == Range(inter[i].cmds)
             hit(c) == RemoteNamed(rem[s], o[c].name)
             o2 == [c \in 1..Len(o) |->
                      IF c \in refs /\ hit(c) # {}
                      THEN [o[c] EXCEPT !.cmd_id = Str((CHOOSE r \in hit(c) : TRUE).id)]
                      ELSE o[c]]
             m2 == MapPutAll(m, {<<Str(r.id), s>> :
                                   r \in {q \in rem[s] : \E c \in refs : q.name = o[c].name}})
         IN  IF s \in fb
             THEN [objs |-> o, map |-> m, raised |-> MissingAccess(s)]
             ELSE CacheLocalScopes(o2, m2, inter, rem, fb, i + 1)

\* _cache_interactions: the first loop, then the scopes of the bot no command is
\* registered for, where a Forbidden answer is passed over
CacheInteractions(o, m, inter, rem, fb) ==
    LET first == CacheLocalScopes(o, m, inter, rem, fb, 1)
        rest == (Scopes \ ScopeKeys(inter)) \ fb
    IN  IF first.raised # NoRaise
        THEN first
        ELSE [first EXCEPT
                !.map = MapPutAll(@, UNION {{<<Str(r.id), s>> : r \in rem[s]} : s \in rest})]

\* application_commands_to_dict(self.interactions)[scope]: one entry for every
\* command name, with the sub-commands declared under that name as its options
ToDict(o, inter, s) ==
    LET refs == Range(CmdsOf(inter, s))
    IN  {[name |-> n,
          options |-> {<<o[c].group, o[c].sub>> : c \in {k \in refs : o[k].name = n /\ o[k].sub # ""}}] :
            n \in {o[c].name : c \in refs}}

\* sync_needed(local_cmd, remote_cmd), remote_cmd given as the set of the commands
\* found (empty: None): no remote command, or one that differs from the local one
SyncNeeded(local, found) ==
    found = {} \/ \E r \in found : r.name # local.name \/ r.options # local.options

\* the ids the registry gives the commands of the names in ns, from id next on
RECURSIVE FreshIds(_, _)
FreshIds(ns, next) ==
    IF ns = {} THEN {}
    ELSE LET n == CHOOSE x \in ns : TRUE
         IN  {<<n, IdOf(next)>>} \cup FreshIds(ns \ {n}, next + 1)

\* http.post_interaction_element(app, cmds, guild_id=scope): the registry of the scope
\* becomes the commands sent; a command whose name was registered keeps its id, any
\* other gets a new one.  The response is the new registry.
BulkOverwrite(resp, cmds, next) ==
    LET fresh == FreshIds({j.name : j \in cmds} \ {r.name : r \in resp}, next)
        idFor(n) == IF RemoteNamed(resp, n) # {}
                    THEN (CHOOSE r \in RemoteNamed(resp, n) : TRUE).id
                    ELSE (CHOOSE q \in fresh : q[1] = n)[2]
    IN  [cmds |-> {[id |-> idFor(j.name), name |-> j.name, options |-> j.options] : j \in cmds},
         nextId |-> next + Cardinality(fresh)]

\* a variant of AfterPost that reads the name of cmd_data only and never its options
AfterPost_TopLevelOnly(o, inter, s, response) ==
    LET refs == Range(CmdsOf(inter, s))
        gives(d, c) == o[c].name = d.name /\ o[c].sub = "" /\ o[c].group = ""
    IN  [c \in 1..Len(o) |->
            IF c \in refs /\ \E d \in response : gives(d, c)
            THEN [o[c] EXCEPT !.cmd_id = Str((CHOOSE d \in response : gives(d, c)).id)]
            ELSE o[c]]

\* for cmd_data in cmd_sync_resp: ... .cmd_id = str(cmd_data["id"]): the command
\* objects after the response of the bulk call was read.  Where the name of cmd_data
\* is itself a key of the scope's table that command gets the id; otherwise the
\* sub-commands and group sub-commands named by cmd_data's options get it.
AfterPost(o, inter, s, response) ==
    LET refs == Range(CmdsOf(inter, s))
        top(d) == <<d.name, "", "">> \in NamesOf(o, inter, s)
        gives(d, c) == /\ o[c].name = d.name
                       /\ IF top(d) THEN o[c].sub = "" /\ o[c].group = ""
                          ELSE <<o[c].group, o[c].sub>> \in d.options
    IN  [c \in 1..Len(o) |->
            IF c \in refs /\ \E d \in response : gives(d, c)
            THEN [o[c] EXCEPT !.cmd_id = Str((CHOOSE d \in response : gives(d, c)).id)]
            ELSE o[c]]

\* the least element of a non-empty set of numbers
Min(S) == CHOOSE x \in S : \A y \in S : x <= y

\* guild_perms after  guild_perms[g].append({"id": cmd_id, ...})  for every guild g
\* of gs, in ascending order; a guild not yet a key becomes the last key
RECURSIVE AppendPerms(_, _, _)
AppendPerms(gp, id, gs) ==
    IF gs = {} THEN gp
    ELSE LET g == Min(gs)
             gp2 == IF \E k \in 1..Len(gp) : gp[k].guild = g
                    THEN [k \in 1..Len(gp) |->
                            IF gp[k].guild = g THEN [gp[k] EXCEPT !.data = Append(@, id)]
                            ELSE gp[k]]
                    ELSE Append(gp, [guild |-> g, data |-> <<id>>])
         IN  AppendPerms(gp2, id, gs \ {g})

\* for local_cmd in self.interactions.get(cmd_scope, {}).values(): ... guild_perms[...].append(...)
RECURSIVE CollectPerms(_, _, _, _)
CollectPerms(gp, o, refs, k) ==
    IF k > Len(refs) THEN gp
    ELSE CollectPerms(AppendPerms(gp, o[refs[k]].cmd_id, o[refs[k]].permissions), o, refs, k + 1)

\* one call of the HTTP client that writes to the remote registry
Write(op, scope, cmds, ids) == [op |-> op, scope |-> scope, cmds |-> cmds, ids |-> ids]

\* for perm_scope in guild_perms: await self.http.batch_edit_application_command_permissions(...)
\* from the k-th key on: the calls made, and whether one was answered Forbidden
RECURSIVE PermCalls(_, _, _)
PermCalls(gp, fb, k) ==
    IF k > Len(gp) THEN [writes |-> <<>>, forbidden |-> FALSE]
    ELSE IF gp[k].guild \in fb THEN [writes |-> <<>>, forbidden |-> TRUE]
    ELSE LET r == PermCalls(gp, fb, k + 1)
         IN  [r EXCEPT !.writes = <<Write("permissions", gp[k].guild, {}, gp[k].data)>> \o @]

\* for cmd in [c for c in cmds_resp_data if c not in found]: await self.http.delete_interaction_element(...)
RECURSIVE DeleteCalls(_, _)
DeleteCalls(orphans, s) ==
    IF orphans = {} THEN <<>>
    ELSE LET c == CHOOSE x \in orphans : \A y \in orphans : x.id[2] <= y.id[2]
         IN  <<Write("delete", s, {}, <<c.id>>)>> \o DeleteCalls(orphans \ {c}, s)

\* cmd_scopes: the guilds of the bot, then GLOBAL_SCOPE
CmdScopes == [i \in 1..(MaxGuilds + 1) |-> IF i <= MaxGuilds THEN i ELSE GLOBAL_SCOPE]

\* the body of  for cmd_scope in cmd_scopes  for scope s, on the pass state st: the
\* command objects, the scope map, the registry, the next id, the write calls made,
\* guild_perms, the exception raised, the scopes whose body ran to its end, and the
\* responses of the bulk calls
SyncScope(st, inter, s, fb, del) ==
    IF s \in fb
    THEN \* get_interaction_element is answered Forbidden
         [st EXCEPT !.raised = MissingAccess(s)]
    ELSE LET cmds_resp_data == st.remote[s]
             refs == CmdsOf(inter, s)
             cmds_json == ToDict(st.objs, inter, s)
             remote_cmd(c) == {v \in cmds_resp_data : v.id = st.objs[c].cmd_id}
             local_cmd(c) == CHOOSE j \in cmds_json : j.name = st.objs[c].name
             found == UNION {remote_cmd(c) : c \in Range(refs)}
             need_to_sync == \E c \in Range(refs) : SyncNeeded(local_cmd(c), remote_cmd(c))
             post == BulkOverwrite(cmds_resp_data, cmds_json, st.nextId)
             o2 == IF need_to_sync THEN AfterPost(st.objs, inter, s, post.cmds) ELSE st.objs
             m2 == IF need_to_sync
                   THEN MapPutAll(st.map, {<<d.id, s>> : d \in post.cmds})
                   ELSE st.map
             rem2 == IF need_to_sync THEN [st.remote EXCEPT ![s] = post.cmds] ELSE st.remote
             w2 == IF need_to_sync
                   THEN Append(st.writes, Write("post", s, cmds_json, <<>>))
                   ELSE st.writes
             gp2 == CollectPerms(st.guild_perms, o2, refs, 1)
             perms == PermCalls(gp2, fb, 1)
             orphans == IF del THEN cmds_resp_data \ found ELSE {}
             p2 == IF need_to_sync THEN [st.posted EXCEPT ![s] = post.cmds] ELSE st.posted
         IN  IF perms.forbidden
             THEN [st EXCEPT !.objs = o2, !.map = m2, !.remote = rem2, !.posted = p2,
                             !.nextId = IF need_to_sync THEN post.nextId ELSE @,
                             !.writes = w2 \o perms.writes, !.guild_perms = gp2,
                             !.raised = MissingAccess(s)]
             ELSE [st EXCEPT !.objs = o2, !.map = m2, !.posted = p2,
                             !.remote = [rem2 EXCEPT ![s] = @ \ orphans],
                             !.nextId = IF need_to_sync THEN post.nextId ELSE @,
                             !.writes = (w2 \o perms.writes) \o DeleteCalls(orphans, s),
                             !.guild_perms = gp2,
                             !.done = Append(@, s)]

\* for cmd_scope in cmd_scopes: ..., from the i-th scope on; an exception ends the loop
RECURSIVE SyncScopes(_, _, _, _, _)
SyncScopes(st, inter, fb, del, i) ==
    IF i > Len(CmdScopes) \/ st.raised # NoRaise THEN st
    ELSE SyncScopes(SyncScope(st, inter, CmdScopes[i], fb, del), inter, fb, del, i + 1)

\* synchronise_interactions, for the scopes fb whose calls are answered Forbidden
SynchroniseResult(o, m, inter, rem, next, fb, del) ==
    LET cached == CacheInteractions(o, m, inter, rem, fb)
        st == [objs |-> cached.objs, map |-> cached.map, remote |-> rem, nextId |-> next,
               writes |-> <<>>, guild_perms |-> <<>>, raised |-> cached.raised, done |-> <<>>,
               posted |-> [s \in Scopes |-> {}]]
    IN  SyncScopes(st, inter, fb, del, 1)

NoPass ==
    [n |-> 0, repeat |-> FALSE, fb |-> {}, remoteBefore |-> [s \in Scopes |-> {}],
     writes |-> <<>>, raised |-> NoRaise, done |-> <<>>, posted |-> [s \in Scopes |-> {}]]

(***************************************************************************)
(* The command router: _gather_commands, get_context,                      *)
(* _dispatch_interaction, _dispatch_msg_commands and the hooks.            *)
(***************************************************************************)
\* InteractionTypes, and the declared types of the payloads of the model: the four
\* the router knows and one it does not
InteractionTypes == {"PING", "APPLICATION_COMMAND", "MESSAGE_COMPONENT", "AUTOCOMPLETE"}

DeclaredTypes == InteractionTypes \cup {"MODAL_SUBMIT"}

\* interaction_data["data"]["component_type"]
ComponentTypes == {"ACTION_ROW", "BUTTON", "SELECT"}

\* how a handler called by the router ends: it returns, raises an Exception, or is
\* cancelled ("none": the router called no handler)
HandlerOutcomes == {"ok", "raise", "cancel", "none"}

\* the handlers the router invokes
Handlers == {"message", "command", "component", "autocomplete"}

\* the name of the option an autocomplete payload marks as focused ("": none)
OptionNames == {"", "opt"}

\* the programs of the model, as the objects _gather_commands finds: application
\* commands, message commands, component callbacks and listeners
Programs ==
    { << [kind |-> "interaction", cmd |-> Command(<<"A", "", "">>, <<1>>, {}, {"opt"})],
         [kind |-> "interaction", cmd |-> Command(<<"B", "g", "t">>, <<GLOBAL_SCOPE>>, {}, {})],
         [kind |-> "message", name |-> "m", enabled |-> TRUE],
         [kind |-> "component", custom_ids |-> <<2>>],
         [kind |-> "listener", event |-> "component"] >>,
      << [kind |-> "message", name |-> "m", enabled |-> FALSE],
         [kind |-> "interaction", cmd |-> Command(<<"B", "", "s">>, <<1, GLOBAL_SCOPE>>, {}, {})],
         [kind |-> "component", custom_ids |-> <<1, 2>>] >> }

\* a variant of AddMessageCommand that puts the command in place of the one of its name
AddMessageCommand_Replace(cmds, name, enabled) ==
    [commands |-> {c \in cmds : c.name # name} \cup {[name |-> name, enabled |-> enabled]},
     raised |-> FALSE]

\* add_message_command(command): the table it leaves and whether it raised ValueError
AddMessageCommand(cmds, name, enabled) ==
    IF \E c \in cmds : c.name = name
    THEN [commands |-> cmds, raised |-> TRUE]
    ELSE [commands |-> cmds \cup {[name |-> name, enabled |-> enabled]}, raised |-> FALSE]

\* add_component_callback(command), from the i-th custom id of command.listeners on
RECURSIVE AddComponentCallback(_, _, _, _)
AddComponentCallback(cbs, custom_ids, callback, i) ==
    IF i > Len(custom_ids) THEN [callbacks |-> cbs, raised |-> FALSE]
    ELSE IF MapGet(cbs, custom_ids[i]) # {}
         THEN [callbacks |-> cbs, raised |-> TRUE]
         ELSE AddComponentCallback(cbs \cup {<<custom_ids[i], callback>>}, custom_ids, callback, i + 1)

\* process(_cmds) of _gather_commands, from the i-th object on; a ValueError of a
\* registration ends it
RECURSIVE Process(_, _, _)
Process(st, prog, i) ==
    IF i > Len(prog) \/ st.raised THEN st
    ELSE LET x == prog[i]
         IN  IF x.kind = "component"
             THEN LET r == AddComponentCallback(st.callbacks, x.custom_ids, i, 1)
                  IN  Process([st EXCEPT !.callbacks = r.callbacks, !.raised = r.raised], prog, i + 1)
             ELSE IF x.kind = "interaction"
             THEN LET o == Append(st.objs, x.cmd)
                      r == AddToScopes(o, st.interactions, Len(o), x.cmd.scopes, 1)
                  IN  Process([st EXCEPT !.objs = o, !.interactions = r.interactions,
                                         !.raised = r.raised], prog, i + 1)
             ELSE IF x.kind = "message"
             THEN LET r == AddMessageCommand(st.commands, x.name, x.enabled)
                  IN  Process([st EXCEPT !.commands = r.commands, !.raised = r.raised], prog, i + 1)
             ELSE Process([st EXCEPT !.listeners[x.event] = Append(@, i)], prog, i + 1)

\* what a piece of the router did: the handlers and hooks it called, in order, and
\* the exception it ended with ("none": it went on)
Did(called, exc) == [calls |-> called, raised |-> exc]

\* on_error(source, error): prints
OnError == Did(<<"on_error">>, "none")

\* on_command_error(ctx, error): reads ctx.invoked_name, which a str does not have,
\* and calls on_error
OnCommandError(ctx) ==
    IF ctx = "str"
    THEN Did(<<"on_command_error">>, "AttributeError")
    ELSE Did(<<"on_command_error">> \o OnError.calls, OnError.raised)

\* on_component_error(ctx, error)
OnComponentError(ctx) == Did(<<"on_component_error">> \o OnError.calls, OnError.raised)

\* on_autocomplete_error(ctx, error)
OnAutocompleteError(ctx) == Did(<<"on_autocomplete_error">> \o OnError.calls, OnError.raised)

\* try: await handler(...)  except Exception as e: await error_hook(...)
\* finally: await after_hook(ctx)
\* found is whether the handler was there to be called (the autocomplete callback
\* is looked up inside the try), out how it ended; an exception of the error hook,
\* or a cancellation, leaves the statement after the after-hook ran
Invoke(handler, found, out, error_hook, after_hook) ==
    LET body == IF ~found THEN Did(<<>>, "KeyError")
                ELSE Did(<<handler>>, IF out = "ok" THEN "none"
                                      ELSE IF out = "raise" THEN "Exception"
                                      ELSE "CancelledError")
        handled == IF body.raised \in {"KeyError", "Exception"}
                   THEN Did(body.calls \o error_hook.calls, error_hook.raised)
                   ELSE body
    IN  Did(handled.calls \o <<after_hook>>, handled.raised)

\* get_context(data, True), as far as the router reads the context: invoked_name (the
\* name, then the group and sub-command named by the first option) and focussed_option
GetContext(payload) ==
    [invoked_name |-> <<payload.name, payload.path[1], payload.path[2]>>,
     focussed_option |-> payload.focused,
     custom_id |-> payload.custom_id]

\* a variant of ResolveScope that takes the global scope for an id the map lacks
ResolveScope_DefaultGlobal(m, inter, id) ==
    (IF MapGet(m, Str(id)) = {} THEN {GLOBAL_SCOPE} ELSE MapGet(m, Str(id)))
        \cap ScopeKeys(inter)

\* self._interaction_scopes.get(str(interaction_id)) ... if scope in self.interactions:
\* the scope the command id resolves to, if commands are registered for it
ResolveScope(m, inter, id) == MapGet(m, Str(id)) \cap ScopeKeys(inter)

\* a variant of RouteCommand that calls the main handler whatever option is focused
RouteCommand_IgnoreFocus(o, m, inter, payload, out) ==
    LET scopes == ResolveScope(m, inter, payload.id)
        scope == CHOOSE sc \in scopes : TRUE
        ctx == GetContext(payload)
        hits == {c \in Range(CmdsOf(inter, scope)) : ResolvedName(o[c]) = ctx.invoked_name}
    IN  IF scopes = {} THEN Did(<<>>, "none")
        ELSE IF hits = {} THEN Did(<<>>, "KeyError")
        ELSE Invoke("command", TRUE, out, OnCommandError("context"), "on_command")

\* the first branch of _dispatch_interaction: PING, APPLICATION_COMMAND, AUTOCOMPLETE
RouteCommand(o, m, inter, payload, out) ==
    LET scopes == ResolveScope(m, inter, payload.id)
        scope == CHOOSE sc \in scopes : TRUE
        ctx == GetContext(payload)
        hits == {c \in Range(CmdsOf(inter, scope)) : ResolvedName(o[c]) = ctx.invoked_name}
        command == o[CHOOSE c \in hits : TRUE]
    IN  IF scopes = {} THEN Did(<<>>, "none")
        ELSE IF hits = {} THEN Did(<<>>, "KeyError")
        ELSE IF ctx.focussed_option # ""
             THEN Invoke("autocomplete", ctx.focussed_option \in command.autocomplete, out,
                         OnAutocompleteError("context"), "on_autocomplete")
             ELSE Invoke("command", TRUE, out, OnCommandError("context"), "on_command")

\* the second branch of _dispatch_interaction, after dispatch(events.Component(ctx)):
\* the callback registered for the custom id, then the event of the component type
RouteComponent(cbs, payload, out) ==
    LET ctx == GetContext(payload)
        r == IF MapGet(cbs, ctx.custom_id) # {}
             THEN Invoke("component", TRUE, out, OnComponentError("context"), "on_component")
             ELSE Did(<<>>, "none")
        specific == IF r.raised # "none" THEN <<>>
                    ELSE IF payload.component_type = "BUTTON" THEN <<"button">>
                    ELSE IF payload.component_type = "SELECT" THEN <<"select">>
                    ELSE <<>>
    IN  [calls |-> r.calls, raised |-> r.raised, events |-> <<"component">> \o specific]

\* _dispatch_msg_commands(event), for a message by a bot or not, the prefix
\* get_prefix returns (MENTION_PREFIX or a literal), what the content starts with
\* and its first word after that
RouteMessage(cmds, message, out) ==
    LET starts == IF message.prefix = "mention"
                  THEN message.lead = "mention"
                  ELSE message.lead = message.prefix
        hits == {c \in cmds : c.name = message.word /\ c.enabled}
    IN  IF message.bot \/ ~starts \/ hits = {} THEN Did(<<>>, "none")
        ELSE Invoke("message", TRUE, out, OnCommandError("str"), "on_command")

\* the events the router is run for
RawInteractionCreate == [name |-> "raw_interaction_create", data |-> 0, attrs |-> 2]

MessageCreate == [name |-> "message_create", data |-> 0, attrs |-> 2]

\* no event was routed yet
NoRouting ==
    [n |-> 0, kind |-> "none", type |-> "none", component_type |-> "none",
     registered |-> FALSE, mapped |-> {}, found |-> FALSE, focused |-> "",
     has_callback |-> FALSE, out |-> "none",
     calls |-> <<>>, raised |-> "none", events |-> <<>>, surfaced |-> FALSE]

(***************************************************************************)
(* get_context: the options of a command payload resolved through the      *)
(* caches.                                                                 *)
(***************************************************************************)
\* the ids of the users, roles and channels a cache can hold; an option carries one
\* of them, or an id no cache holds, as a string
ObjectIds == {1}

OptionValues == {IdOf(n) : n \in ObjectIds \cup {2}}

\* a snowflake: an id as an integer
Snowflake(n) == <<"int", n>>

\* to_snowflake(x): the integer of an id given as a string or as an integer
ToSnowflake(x) == Snowflake(x[2])

\* data.get("guild_id", 0): the guild of the interaction as the payload gives it, or
\* the default 0 of a payload without the key
PayloadGuilds == {Snowflake(0), IdOf(1)}

\* the key of a member in cache.member_cache: (guild id, user id)
MemberKey(guild, user) == <<"pair", guild[2], user[2]>>

\* what the caches can hold
MemberKeys == {MemberKey(Snowflake(1), Snowflake(u)) : u \in ObjectIds}

Snowflakes == {Snowflake(n) : n \in ObjectIds}

OptionTypes == {"USER", "CHANNEL", "ROLE", "MENTIONABLE", "STRING"}

\* what an option resolves to: an object of a cache, or the value of the payload
Cached(kind, key) == [kind |-> kind, key |-> key]

Raw(value) == [kind |-> "raw", key |-> value]

\* None, where a cached object or a value is expected
NoObject == [kind |-> "none", key |-> NoId]

\* cache.get(key): the object cached under key, or None
CacheGet(kind, cache, key) == IF key \in cache THEN Cached(kind, key) ELSE NoObject

\* a or b, for a cached object or None
Or(a, b) == IF a # NoObject THEN a ELSE b

\* a variant of ResolveOption whose USER branch asks the user cache first
ResolveOption_UserFirst(type, guild_id, value, members, users, roles, channels) ==
    LET snow == ToSnowflake(value)
    IN  IF type = "USER"
        THEN Or(Or(CacheGet("user", users, snow),
                   CacheGet("member", members, MemberKey(ToSnowflake(guild_id), snow))),
                Raw(value))
        ELSE IF type = "CHANNEL" THEN Or(CacheGet("channel", channels, snow), Raw(value))
        ELSE IF type = "ROLE" THEN Or(CacheGet("role", roles, snow), Raw(value))
        ELSE IF type = "MENTIONABLE"
        THEN LET user == Or(CacheGet("member", members, snow), CacheGet("user", users, snow))
                 role == CacheGet("role", roles, snow)
             IN  IF user # NoObject THEN user ELSE IF role # NoObject THEN role ELSE Raw(value)
        ELSE Raw(value)

\* for option in options: ... the value an option of the payload resolves to.
\* The MENTIONABLE branch asks the member cache for the bare snowflake.
ResolveOption(type, guild_id, value, members, users, roles, channels) ==
    LET snow == ToSnowflake(value)
    IN  IF type = "USER"
        THEN Or(Or(CacheGet("member", members, MemberKey(ToSnowflake(guild_id), snow)),
                   CacheGet("user", users, snow)),
                Raw(value))
        ELSE IF type = "CHANNEL" THEN Or(CacheGet("channel", channels, snow), Raw(value))
        ELSE IF type = "ROLE" THEN Or(CacheGet("role", roles, snow), Raw(value))
        ELSE IF type = "MENTIONABLE"
        THEN LET user == Or(CacheGet("member", members, snow), CacheGet("user", users, snow))
                 role == CacheGet("role", roles, snow)
             IN  IF user # NoObject THEN user ELSE IF role # NoObject THEN role ELSE Raw(value)
        ELSE Raw(value)

NoOption ==
    [type |-> "none", guild_id |-> Snowflake(0), value |-> NoId, members |-> {},
     users |-> {}, roles |-> {}, channels |-> {}, result |-> NoObject]

(***************************************************************************)
(* _on_websocket_ready and the registrations.                              *)
(***************************************************************************)
\* the guild ids of data["guilds"] and of the guilds the gateway sends
HandshakeGuilds == 1..MaxHandshakeGuilds

\* a variant of LoopExit whose wait has no timeout
LoopExit_NoTimeout(signalled, cache, expected) ==
    IF ~signalled THEN "none"
    ELSE IF Cardinality(cache) = Cardinality(expected) THEN "full"
    ELSE "none"

\* one turn of  while True:  in _on_websocket_ready, for a wait that ended by the
\* signal or by the timeout: "timeout" and "full" leave the loop, "none" goes round
LoopExit(signalled, cache, expected) ==
    IF ~signalled THEN "timeout"
    ELSE IF Cardinality(cache) = Cardinality(expected) THEN "full"
    ELSE "none"

\* the exception of an HTTP call that fails for another reason than Forbidden
HTTPException == [kind |-> "HTTPException", scope |-> GLOBAL_SCOPE]

\* the pass _init_interactions makes: synchronise_interactions or _cache_interactions;
\* with fault, its first HTTP call raises HTTPException and nothing was changed yet
InitPass(sync, fault, o, m, inter, rem, next, fb, del) ==
    IF fault
    THEN [objs |-> o, map |-> m, remote |-> rem, nextId |-> next, raised |-> HTTPException]
    ELSE IF sync
    THEN SynchroniseResult(o, m, inter, rem, next, fb, del)
    ELSE LET c == CacheInteractions(o, m, inter, rem, fb)
         IN  [objs |-> c.objs, map |-> c.map, remote |-> rem, nextId |-> next,
              raised |-> c.raised]

\* a variant of InitInteractions without the call of on_error
InitInteractions_Swallow(sync, fault, o, m, inter, rem, next, fb, del) ==
    LET r == InitPass(sync, fault, o, m, inter, rem, next, fb, del)
    IN  [objs |-> r.objs, map |-> r.map, remote |-> r.remote, nextId |-> r.nextId,
         raised |-> r.raised, steps |-> <<"_init_interactions">>]

\* _init_interactions(): a pass of synchronise_interactions or of _cache_interactions;
\* an exception of the pass goes to on_error and no further
InitInteractions(sync, fault, o, m, inter, rem, next, fb, del) ==
    LET r == InitPass(sync, fault, o, m, inter, rem, next, fb, del)
    IN  [objs |-> r.objs, map |-> r.map, remote |-> r.remote, nextId |-> r.nextId,
         raised |-> r.raised,
         steps |-> IF r.raised # NoRaise THEN <<"_init_interactions", "on_error">>
                   ELSE <<"_init_interactions">>]

\* an entry of the handler's log: what it did, and self._ready at that moment
Step(name, ready) == [step |-> name, ready |-> ready]

\* a variant of MarkAndDispatch that dispatches Ready before it sets self._ready
MarkAndDispatch_DispatchFirst(lg, ready) ==
    [log |-> lg \o <<Step("Ready", ready), Step("_ready", TRUE)>>, _ready |-> TRUE]

\* self._ready = True; self.dispatch(events.Ready())
MarkAndDispatch(lg, ready) ==
    [log |-> lg \o <<Step("_ready", TRUE), Step("Ready", TRUE)>>, _ready |-> TRUE]

NotStarted ==
    [n |-> 0, pc |-> "idle", expected_guilds |-> {}, exit |-> "none", observed |-> {},
     failed |-> "none", log |-> <<>>]

\* no registration call was made yet.  held: a key of the call was in the table
\* before the call; kept: every entry the table had before the call is in it, unchanged
NoRegistration ==
    [kind |-> "none", raised |-> FALSE, held |-> FALSE, kept |-> TRUE, same |-> TRUE]

\* the commands self.interactions holds for scope s, by resolved name
EntriesIn(o, inter, s) == {<<ResolvedName(o[c]), c>> : c \in Range(CmdsOf(inter, s))}

(***************************************************************************)
(* The state after Snake.__init__ and the entry into _ws_connect.          *)
(***************************************************************************)
Init ==
    /\ pc = "head"
    /\ params = FreshParams
    /\ ws = MissingWs
    /\ _ready = FALSE
    /\ _closed = FALSE
    /\ closing = FALSE
    /\ readyTasks = 0
    /\ err = NoErr
    /\ lastEnd = NoEnd
    /\ slept = 0
    /\ made = FALSE
    /\ attempt = NoAttempt
    /\ stopped = FALSE
    /\ listeners = [n \in EventNames |-> <<>>]
    /\ waits = [n \in EventNames |-> <<>>]
    /\ futures = <<>>
    /\ tasks = <<>>
    /\ errors = <<>>
    /\ calls = <<>>
    /\ wfc = NoComponentWait
    /\ del_unused_app_cmd \in BOOLEAN
    /\ objs = <<>>
    /\ interactions = <<>>
    /\ _interaction_scopes = {}
    /\ remote = [s \in Scopes |-> {}]
    /\ nextId = 1
    /\ lastPass = NoPass
    /\ clean = FALSE
    /\ commands = {}
    /\ _component_callbacks = {}
    /\ gathered = FALSE
    /\ inv = NoRouting
    /\ member_cache = {}
    /\ user_cache = {}
    /\ role_cache = {}
    /\ channel_cache = {}
    /\ resolved = NoOption
    /\ guild_cache = {}
    /\ _guild_event = FALSE
    /\ readiness = NotStarted
    /\ reg = NoRegistration

\* while not self.is_closed: ... self.ws = await WebsocketClient.connect(**params)
\* (the call is made; it has not returned yet)
LoopHead ==
    /\ pc = "head"
    /\ IF _closed
       THEN /\ pc' = "returned"
            /\ UNCHANGED <<made, attempt>>
       ELSE /\ pc' = "connecting"
            /\ made' = TRUE
            /\ attempt' = [resume |-> params.resume, session_id |-> params.session_id,
                           sequence |-> params.sequence, delay |-> slept]
    /\ UNCHANGED <<params, ws, _ready, _closed, closing, readyTasks, err, lastEnd, slept, stopped>>
    /\ UNCHANGED dispVars
    /\ UNCHANGED extVars

\* WebsocketClient.connect returns the new client: a resumed session carries the
\* session id and sequence it was given, a fresh one has none before READY
ConnectOk ==
    /\ pc = "connecting"
    /\ ws' = [exists |-> TRUE,
              session_id |-> IF params.resume THEN params.session_id ELSE None,
              sequence |-> IF params.resume THEN params.sequence ELSE None]
    /\ closing' = FALSE
    /\ pc' = "running"
    /\ UNCHANGED <<params, _ready, _closed, readyTasks, err, lastEnd, slept, made, attempt,
                   stopped>>
    /\ UNCHANGED dispVars
    /\ UNCHANGED extVars

\* one pass through the except clauses, for exception ex raised by connect
\* (active = FALSE) or by ws.run (active = TRUE)
EndWith(ex, active) ==
    LET o == HandleEnd(ex, _ready, ws, params)
        d == DispatchResult(DisconnectEvent, 0)
    IN  IF o.disc = 1 /\ d.raised
        THEN \* self.dispatch(events.Disconnect()) raised inside the except clause
             /\ pc' = "raised"
             /\ err' = IndexError
             /\ lastEnd' = EndRecord(ex, active, _ready, ws, Outcome(1, params, "raise", IndexError))
             /\ slept' = 0
             /\ made' = FALSE
             /\ tasks' = d.tasks
             /\ waits' = d.waits
             /\ futures' = d.futures
             /\ UNCHANGED <<params, ws, _ready, _closed, closing, readyTasks, attempt, stopped,
                            listeners, errors, calls>>
        ELSE /\ params' = o.params
             /\ pc' = PcAfter(o.next)
             /\ err' = o.err
             /\ lastEnd' = EndRecord(ex, active, _ready, ws, o)
             /\ slept' = 0
             /\ made' = FALSE
             /\ tasks' = IF o.disc = 1 THEN d.tasks ELSE tasks
             /\ waits' = IF o.disc = 1 THEN d.waits ELSE waits
             /\ futures' = IF o.disc = 1 THEN d.futures ELSE futures
             /\ UNCHANGED <<ws, _ready, _closed, closing, readyTasks, attempt, stopped,
                            listeners, errors, calls>>

\* await WebsocketClient.connect(**params) raises: self.ws keeps its old value
ConnectFails ==
    /\ pc = "connecting"
    /\ \E ex \in Exceptions : EndWith(ex, FALSE)
    /\ UNCHANGED extVars

\* await self.ws.run() raises: the active connection ends
RunEnds ==
    /\ pc = "running"
    /\ \E ex \in Exceptions : EndWith(ex, TRUE)
    /\ UNCHANGED extVars

\* await self.ws.run() returns after close(code) ended the session deliberately:
\* no except clause runs, the loop body goes on to the sleep
RunReturns ==
    /\ pc = "running"
    /\ closing
    /\ pc' = "sleeping"
    /\ lastEnd' = EndRecord(Exc("return", 0, FALSE), TRUE, _ready, ws,
                            Outcome(0, params, "sleep", NoErr))
    /\ slept' = 0
    /\ made' = FALSE
    /\ UNCHANGED <<params, ws, _ready, _closed, closing, readyTasks, err, attempt, stopped>>
    /\ UNCHANGED dispVars
    /\ UNCHANGED extVars

\* await asyncio.sleep(5)
Sleep ==
    /\ pc = "sleeping"
    /\ pc' = "head"
    /\ slept' = slept + SleepDelay
    /\ UNCHANGED <<params, ws, _ready, _closed, closing, readyTasks, err, lastEnd, made,
                   attempt, stopped>>
    /\ UNCHANGED dispVars
    /\ UNCHANGED extVars

\* the gateway's READY of a fresh session: the session gets its id and first
\* sequence number, and the _on_websocket_ready listener is started as a task
GatewayReady ==
    /\ pc = "running"
    /\ ws.session_id = None
    /\ readyTasks < MaxReadyTasks
    /\ \E s \in SessionIds :
         ws' = [ws EXCEPT !.session_id = s, !.sequence = 1]
    /\ readyTasks' = readyTasks + 1
    /\ UNCHANGED <<pc, params, _ready, _closed, closing, err, lastEnd, slept, made, attempt,
                   stopped>>
    /\ UNCHANGED dispVars
    /\ UNCHANGED extVars

\* any later gateway event: the session's sequence number goes up
GatewayEvent ==
    /\ pc = "running"
    /\ ws.session_id # None
    /\ ws.sequence < MaxSeq
    /\ ws' = [ws EXCEPT !.sequence = ws.sequence + 1]
    /\ UNCHANGED <<pc, params, _ready, _closed, closing, readyTasks, err, lastEnd, slept, made,
                   attempt, stopped>>
    /\ UNCHANGED dispVars
    /\ UNCHANGED extVars

\* _on_websocket_ready reaches its end: self._ready = True
OnWebsocketReady ==
    /\ readyTasks > 0
    /\ readyTasks' = readyTasks - 1
    /\ _ready' = TRUE
    /\ UNCHANGED <<pc, params, ws, _closed, closing, err, lastEnd, slept, made, attempt,
                   stopped>>
    /\ UNCHANGED dispVars
    /\ UNCHANGED extVars

\* stop(): self._ready = False; await self.ws.close(1001)
Stop ==
    /\ ws.exists
    /\ _ready' = FALSE
    /\ closing' = (closing \/ pc = "running")
    /\ stopped' = TRUE
    /\ UNCHANGED <<pc, params, ws, _closed, readyTasks, err, lastEnd, slept, made, attempt>>
    /\ UNCHANGED dispVars
    /\ UNCHANGED extVars

NextWs ==
    \/ LoopHead
    \/ ConnectOk
    \/ ConnectFails
    \/ RunEnds
    \/ RunReturns
    \/ Sleep
    \/ GatewayReady
    \/ GatewayEvent
    \/ OnWebsocketReady
    \/ Stop

SpecWs == Init /\ [][NextWs]_vars

(***************************************************************************)
(* The dispatcher's operations.                                            *)
(***************************************************************************)
\* the number of listeners registered so far; the next one is a new coroutine function
Registered == Len(listeners["disconnect"]) + Len(listeners["component"])

\* add_listener(listener)
AddListener ==
    /\ Registered < MaxListeners
    /\ \E n \in EventNames :
         listeners' = [listeners EXCEPT ![n] = Append(@, Registered + 1)]
    /\ UNCHANGED <<waits, futures, tasks, errors, calls>>
    /\ UNCHANGED wsVars
    /\ UNCHANGED extVars

\* wait_for(event, checks, timeout): a new future and a new Wait at the end of the list
WaitFor ==
    /\ Len(futures) < MaxWaits
    /\ \E n \in EventNames, c \in Checks :
         waits' = [waits EXCEPT ![n] = Append(@, [fut |-> Len(futures) + 1, checks |-> c])]
    /\ futures' = Append(futures, [state |-> "pending", result |-> NoEvent])
    /\ UNCHANGED <<listeners, tasks, errors, calls>>
    /\ UNCHANGED wsVars
    /\ UNCHANGED extVars

\* dispatch(event), called by the gateway client or by the program
Dispatch ==
    /\ Len(calls) < MaxDispatch
    /\ \E ev \in Events :
         /\ Len(tasks) + Len(listeners[ev.name]) <= MaxTasks
         /\ LET d == DispatchResult(ev, Len(calls) + 1)
            IN  /\ tasks' = d.tasks
                /\ waits' = d.waits
                /\ futures' = d.futures
                /\ calls' = Append(calls, [event |-> ev, listeners |-> listeners[ev.name],
                                           raised |-> d.raised,
                                           waitsBefore |-> waits[ev.name],
                                           waitsAfter |-> d.waits[ev.name]])
    /\ UNCHANGED <<listeners, errors>>
    /\ UNCHANGED wsVars
    /\ UNCHANGED extVars

\* asyncio.wait_for(future, timeout) runs out of time: it cancels the future and
\* raises TimeoutError to the caller of wait_for; nothing in wait_for touches self.waits
Timeout ==
    /\ \E f \in 1..Len(futures) :
         /\ futures[f].state = "pending"
         /\ futures' = [futures EXCEPT ![f] = [state |-> "cancelled", result |-> NoEvent]]
    /\ UNCHANGED <<listeners, waits, tasks, errors, calls>>
    /\ UNCHANGED wsVars
    /\ UNCHANGED extVars

\* wait_for_component(messages, components, check, timeout)
WaitForComponent ==
    /\ Len(futures) < MaxComponentWaits
    /\ \E messages \in SUBSET MessageIds, components \in SUBSET CustomIds, check \in Checks :
         IF NoFilters(messages, components)
         THEN \* raise ValueError(...)
              /\ wfc' = [called |-> TRUE, messages |-> messages, components |-> components,
                         raised |-> "ValueError", before |-> waits["component"],
                         after |-> waits["component"], futures |-> 0]
              /\ UNCHANGED <<waits, futures>>
         ELSE \* return await self.wait_for("component", checks=_check, timeout=timeout)
              LET w == [fut |-> Len(futures) + 1,
                        checks |-> ComponentCheck(messages, components, check)]
              IN  /\ waits' = [waits EXCEPT !["component"] = Append(@, w)]
                  /\ futures' = Append(futures, [state |-> "pending", result |-> NoEvent])
                  /\ wfc' = [called |-> TRUE, messages |-> messages, components |-> components,
                             raised |-> "none", before |-> waits["component"],
                             after |-> Append(waits["component"], w), futures |-> 1]
    /\ UNCHANGED <<listeners, tasks, errors, calls>>
    /\ UNCHANGED wsVars
    /\ UNCHANGED <<syncVars, routerVars, newVars>>

\* add_interaction(command), for a command the program just created
AddInteraction ==
    /\ Len(objs) < MaxCommands
    /\ \E d \in Declarations, scopes \in ScopeLists, permissions \in PermissionSets :
         LET o == Append(objs, Command(d, scopes, permissions, {}))
             r == AddToScopes(o, interactions, Len(o), scopes, 1)
         IN  /\ objs' = o
             /\ interactions' = r.interactions
             /\ reg' = [kind |-> "interaction", raised |-> r.raised,
                        held |-> \E i \in 1..Len(scopes) :
                                    ResolvedName(o[Len(o)])
                                        \in NamesOf(objs, interactions, scopes[i]),
                        kept |-> \A s \in ScopeKeys(interactions) :
                                    EntriesIn(objs, interactions, s)
                                        \subseteq EntriesIn(o, r.interactions, s),
                        same |-> \A s \in Scopes :
                                    EntriesIn(objs, interactions, s)
                                        = EntriesIn(o, r.interactions, s)]
    /\ clean' = FALSE
    /\ UNCHANGED <<del_unused_app_cmd, _interaction_scopes, remote, nextId, lastPass>>
    /\ UNCHANGED <<wsVars, dispVars, wfc, routerVars, optVars, readyVars>>

\* the content of the remote registry when the program starts: a command registered
\* there earlier, by this program or by another
RemoteCreate ==
    /\ objs = <<>> /\ lastPass.n = 0
    /\ nextId <= MaxRemote
    /\ \E s \in Scopes, n \in RemoteNames :
         /\ RemoteNamed(remote[s], n) = {}
         /\ remote' = [remote EXCEPT ![s] = @ \cup {[id |-> IdOf(nextId), name |-> n,
                                                       options |-> {}]}]
    /\ nextId' = nextId + 1
    /\ clean' = FALSE
    /\ UNCHANGED <<del_unused_app_cmd, objs, interactions, _interaction_scopes, lastPass>>
    /\ UNCHANGED <<wsVars, dispVars, wfc, routerVars, newVars>>

\* synchronise_interactions(): one pass
SynchroniseInteractions ==
    /\ lastPass.n < MaxPasses
    /\ \E fb \in ForbiddenSets :
         LET r == SynchroniseResult(objs, _interaction_scopes, interactions, remote, nextId,
                                    fb, del_unused_app_cmd)
         IN  /\ objs' = r.objs
             /\ _interaction_scopes' = r.map
             /\ remote' = r.remote
             /\ nextId' = r.nextId
             /\ lastPass' = [n |-> lastPass.n + 1, repeat |-> clean, fb |-> fb,
                             remoteBefore |-> remote, writes |-> r.writes,
                             raised |-> r.raised, done |-> r.done, posted |-> r.posted]
             /\ clean' = (r.raised = NoRaise)
    /\ UNCHANGED <<del_unused_app_cmd, interactions>>
    /\ UNCHANGED <<wsVars, dispVars, wfc, routerVars, newVars>>

\* the event loop runs one pending task to its end
RunTask ==
    /\ \E i \in 1..Len(tasks), out \in TaskOutcomes :
         /\ tasks[i].state = "pending"
         /\ LET r == AsyncWrap(tasks[i], i, out)
            IN  /\ tasks' = [tasks EXCEPT ![i] = r.task]
                /\ errors' = errors \o r.errs
    /\ UNCHANGED <<listeners, waits, futures, calls>>
    /\ UNCHANGED wsVars
    /\ UNCHANGED extVars

\* _gather_commands(): the commands, message commands and component callbacks the
\* program declares are registered
GatherCommands ==
    /\ ~gathered
    /\ objs = <<>>
    /\ \E prog \in Programs :
         LET r == Process([objs |-> objs, interactions |-> interactions, commands |-> commands,
                           callbacks |-> _component_callbacks, listeners |-> listeners,
                           raised |-> FALSE], prog, 1)
         IN  /\ objs' = r.objs
             /\ listeners' = r.listeners
             /\ interactions' = r.interactions
             /\ commands' = r.commands
             /\ _component_callbacks' = r.callbacks
    /\ gathered' = TRUE
    /\ clean' = FALSE
    /\ UNCHANGED <<del_unused_app_cmd, _interaction_scopes, remote, nextId, lastPass, inv>>
    /\ UNCHANGED <<waits, futures, tasks, errors, calls>>
    /\ UNCHANGED <<wsVars, wfc, newVars>>

\* the payloads of raw_interaction_create: a command payload carries the id and name
\* of a command of the remote registry, or an id the registry never gave, and names
\* one of the sub-commands that command has or none; a component payload carries a
\* custom id and a component type
Invocable ==
    (UNION {remote[s] : s \in Scopes})
        \cup {[id |-> IdOf(nextId), name |-> "A", options |-> {}],
              [id |-> IdOf(nextId), name |-> "B", options |-> {<<"g", "t">>}]}

CommandPayloads ==
    UNION {{[type |-> t, id |-> r.id, name |-> r.name, path |-> p, focused |-> f,
             custom_id |-> 0, component_type |-> "ACTION_ROW", data |-> 0] :
               t \in DeclaredTypes \ {"MESSAGE_COMPONENT"},
               p \in r.options \cup {<<"", "">>},
               f \in OptionNames} : r \in Invocable}

ComponentPayloads ==
    {[type |-> "MESSAGE_COMPONENT", id |-> NoId, name |-> "", path |-> <<"", "">>,
      focused |-> "", custom_id |-> ContextOf(d).custom_id, component_type |-> k,
      data |-> d] :
        k \in ComponentTypes, d \in Payloads}

\* self.interactions[scope][ctx.invoked_name] for the scope the payload's id is mapped
\* to: the commands found, as positions of objs (none: no such scope or no such name)
Targets(payload) ==
    {c \in 1..Len(objs) :
        \E sc \in MapGet(_interaction_scopes, Str(payload.id)) :
            /\ c \in Range(CmdsOf(interactions, sc))
            /\ <<objs[c].name, objs[c].group, objs[c].sub>>
                 = <<payload.name, payload.path[1], payload.path[2]>>}

\* a variant of DispatchInteractionResult whose last branch returns instead of raising
DispatchInteractionResult_DropUnknown(payload, out, d) ==
    IF payload.type \in {"PING", "APPLICATION_COMMAND", "AUTOCOMPLETE"}
    THEN LET r == RouteCommand(objs, _interaction_scopes, interactions, payload, out)
         IN  [calls |-> r.calls, raised |-> r.raised, events |-> <<>>]
    ELSE IF payload.type = "MESSAGE_COMPONENT"
    THEN IF d.raised
         THEN [calls |-> <<>>, raised |-> "IndexError", events |-> <<"component">>]
         ELSE RouteComponent(_component_callbacks, payload, out)
    ELSE [calls |-> <<>>, raised |-> "none", events |-> <<>>]

\* _dispatch_interaction(event), whole: what it called, the events it dispatched and
\* the exception that left it.  The Button and Select events have no listener and no
\* wait in the model; they are recorded only.
DispatchInteractionResult(payload, out, d) ==
    IF payload.type \in {"PING", "APPLICATION_COMMAND", "AUTOCOMPLETE"}
    THEN LET r == RouteCommand(objs, _interaction_scopes, interactions, payload, out)
         IN  [calls |-> r.calls, raised |-> r.raised, events |-> <<>>]
    ELSE IF payload.type = "MESSAGE_COMPONENT"
    THEN IF d.raised
         THEN [calls |-> <<>>, raised |-> "IndexError", events |-> <<"component">>]
         ELSE RouteComponent(_component_callbacks, payload, out)
    ELSE [calls |-> <<>>, raised |-> "NotImplementedError", events |-> <<>>]

\* how the coroutine of a listener task ended, for _async_wrap
TaskOutcome(exc) ==
    IF exc = "none" THEN "ok" ELSE IF exc = "CancelledError" THEN "cancel" ELSE "raise"

\* the task  _async_wrap(self._dispatch_interaction, event)  runs to its end; login
\* gathers the commands before it connects, so no gateway event is routed earlier
DispatchInteraction ==
    /\ gathered
    /\ inv.n < MaxRouted
    /\ \E payload \in CommandPayloads \cup ComponentPayloads, out \in HandlerOutcomes :
         LET isComponent == payload.type = "MESSAGE_COMPONENT"
             d == DispatchResult(Event("component", payload.data), 0)
             r == DispatchInteractionResult(payload, out, d)
             w == AsyncWrap(QueueTask("_dispatch_interaction", RawInteractionCreate, 0), 0,
                            TaskOutcome(r.raised))
         IN  /\ out = "none" <=> \A i \in 1..Len(r.calls) : r.calls[i] \notin Handlers
             /\ Len(tasks) + Len(listeners["component"]) <= MaxTasks
             /\ tasks' = IF isComponent THEN d.tasks ELSE tasks
             /\ waits' = IF isComponent THEN d.waits ELSE waits
             /\ futures' = IF isComponent THEN d.futures ELSE futures
             /\ errors' = errors \o w.errs
             /\ inv' = [n |-> inv.n + 1, kind |-> "interaction", type |-> payload.type,
                        component_type |-> IF isComponent THEN payload.component_type
                                           ELSE "none",
                        registered |-> isComponent
                                       /\ MapGet(_component_callbacks, payload.custom_id) # {},
                        mapped |-> MapGet(_interaction_scopes, Str(payload.id)),
                        found |-> Targets(payload) # {},
                        focused |-> payload.focused,
                        has_callback |-> \E c \in Targets(payload) :
                                            payload.focused \in objs[c].autocomplete,
                        out |-> out, calls |-> r.calls, raised |-> r.raised,
                        events |-> r.events, surfaced |-> w.errs # <<>>]
    /\ UNCHANGED <<listeners, calls>>
    /\ UNCHANGED <<commands, _component_callbacks, gathered>>
    /\ UNCHANGED <<wsVars, wfc, syncVars, newVars>>

\* the messages of message_create: by a bot or not, the prefix get_prefix returns for
\* it, what its content starts with, and the first word after that
Messages ==
    {[bot |-> b, prefix |-> p, lead |-> l, word |-> w] :
        b \in BOOLEAN, p \in {"mention", "!"}, l \in {"mention", "!", "none"},
        w \in {"m", "x"}}

\* the task  _async_wrap(self._dispatch_msg_commands, event)  runs to its end
DispatchMsgCommands ==
    /\ gathered
    /\ inv.n < MaxRouted
    /\ \E message \in Messages, out \in HandlerOutcomes :
         LET r == RouteMessage(commands, message, out)
             w == AsyncWrap(QueueTask("_dispatch_msg_commands", MessageCreate, 0), 0,
                            TaskOutcome(r.raised))
         IN  /\ out = "none" <=> \A i \in 1..Len(r.calls) : r.calls[i] \notin Handlers
             /\ errors' = errors \o w.errs
             /\ inv' = [n |-> inv.n + 1, kind |-> "message", type |-> "none",
                        component_type |-> "none", registered |-> FALSE,
                        found |-> FALSE, focused |-> "", has_callback |-> FALSE,
                        mapped |-> {}, out |-> out,
                        calls |-> r.calls, raised |-> r.raised, events |-> <<>>,
                        surfaced |-> w.errs # <<>>]
    /\ UNCHANGED <<listeners, waits, futures, tasks, calls>>
    /\ UNCHANGED <<commands, _component_callbacks, gathered>>
    /\ UNCHANGED <<wsVars, wfc, syncVars, newVars>>

\* the command router after the program's commands were gathered and synchronised
NextRouter ==
    \/ GatherCommands
    \/ SynchroniseInteractions
    \/ DispatchInteraction
    \/ DispatchMsgCommands

SpecRouter == Init /\ [][NextRouter]_vars

\* component interactions while the program waits for components
NextComponents ==
    \/ GatherCommands
    \/ WaitForComponent
    \/ DispatchInteraction

SpecComponents == Init /\ [][NextComponents]_vars

\* the caches get an object: a member, a user, a role or a channel the gateway sent
CachePlace ==
    /\ \/ \E k \in MemberKeys \ member_cache :
             /\ member_cache' = member_cache \cup {k}
             /\ UNCHANGED <<user_cache, role_cache, channel_cache>>
       \/ \E k \in Snowflakes \ user_cache :
             /\ user_cache' = user_cache \cup {k}
             /\ UNCHANGED <<member_cache, role_cache, channel_cache>>
       \/ \E k \in Snowflakes \ role_cache :
             /\ role_cache' = role_cache \cup {k}
             /\ UNCHANGED <<member_cache, user_cache, channel_cache>>
       \/ \E k \in Snowflakes \ channel_cache :
             /\ channel_cache' = channel_cache \cup {k}
             /\ UNCHANGED <<member_cache, user_cache, role_cache>>
    /\ UNCHANGED <<resolved, readyVars, reg>>
    /\ UNCHANGED <<wsVars, dispVars, wfc, syncVars, routerVars>>

\* get_context(data, True) resolves an option of a command payload
GetContextOption ==
    /\ \E type \in OptionTypes, guild_id \in PayloadGuilds, value \in OptionValues :
         resolved' = [type |-> type, guild_id |-> guild_id, value |-> value,
                      members |-> member_cache, users |-> user_cache, roles |-> role_cache,
                      channels |-> channel_cache,
                      result |-> ResolveOption(type, guild_id, value, member_cache,
                                               user_cache, role_cache, channel_cache)]
    /\ UNCHANGED <<member_cache, user_cache, role_cache, channel_cache, readyVars, reg>>
    /\ UNCHANGED <<wsVars, dispVars, wfc, syncVars, routerVars>>

\* the options of command payloads resolved while the caches fill
NextOptions ==
    \/ CachePlace
    \/ GetContextOption

SpecOptions == Init /\ [][NextOptions]_vars

\* the handshake-complete event arrives and _on_websocket_ready starts: it reads
\* expected_guilds and enters the loop
WebsocketReady ==
    /\ readiness.pc \in {"idle", "done"}
    /\ readiness.n < MaxReady
    /\ \E expected_guilds \in SUBSET HandshakeGuilds :
         readiness' = [n |-> readiness.n + 1, pc |-> "waiting",
                       expected_guilds |-> expected_guilds, exit |-> "none",
                       observed |-> {}, failed |-> "none", log |-> <<>>]
    /\ UNCHANGED <<guild_cache, _guild_event, optVars, reg>>
    /\ UNCHANGED <<wsVars, dispVars, wfc, syncVars, routerVars>>

\* the gateway sends a guild: it is put in the guild cache and the signal is set
GuildCreate ==
    /\ \E g \in HandshakeGuilds \ guild_cache :
         guild_cache' = guild_cache \cup {g}
    /\ _guild_event' = TRUE
    /\ UNCHANGED <<readiness, optVars, reg>>
    /\ UNCHANGED <<wsVars, dispVars, wfc, syncVars, routerVars>>

\* await asyncio.wait_for(self._guild_event.wait(), self.guild_event_timeout) ends: by
\* the signal, which is then cleared, or by the timeout when no signal came
GuildWaitEnds ==
    /\ readiness.pc = "waiting"
    /\ LET exit == LoopExit(_guild_event, guild_cache, readiness.expected_guilds)
       IN  readiness' = IF exit = "none" THEN readiness
                        ELSE [readiness EXCEPT !.pc = "init", !.exit = exit,
                                               !.observed = guild_cache]
    /\ _guild_event' = FALSE
    /\ UNCHANGED <<guild_cache, optVars, reg>>
    /\ UNCHANGED <<wsVars, dispVars, wfc, syncVars, routerVars>>

\* await self._init_interactions()
ReadyInitInteractions ==
    /\ readiness.pc = "init"
    /\ \E sync \in BOOLEAN, fault \in BOOLEAN, fb \in ForbiddenSets :
         LET r == InitInteractions(sync, fault, objs, _interaction_scopes, interactions,
                                   remote, nextId, fb, del_unused_app_cmd)
         IN  /\ objs' = r.objs
             /\ _interaction_scopes' = r.map
             /\ remote' = r.remote
             /\ nextId' = r.nextId
             /\ readiness' = [readiness EXCEPT
                                !.pc = "mark", !.failed = r.raised.kind,
                                !.log = @ \o [i \in 1..Len(r.steps) |-> Step(r.steps[i], _ready)]]
    /\ clean' = FALSE
    /\ UNCHANGED <<del_unused_app_cmd, interactions, lastPass>>
    /\ UNCHANGED <<guild_cache, _guild_event, optVars, reg>>
    /\ UNCHANGED <<wsVars, dispVars, wfc, routerVars>>

\* self._ready = True; self.dispatch(events.Ready()).  No listener and no wait is
\* registered for Ready in the model; the dispatch is recorded only.
ReadyDispatch ==
    /\ readiness.pc = "mark"
    /\ LET r == MarkAndDispatch(readiness.log, _ready)
       IN  /\ readiness' = [readiness EXCEPT !.pc = "done", !.log = r.log]
           /\ _ready' = r._ready
    /\ UNCHANGED <<pc, params, ws, _closed, closing, readyTasks, err, lastEnd, slept, made,
                   attempt, stopped>>
    /\ UNCHANGED <<guild_cache, _guild_event, optVars, reg>>
    /\ UNCHANGED <<dispVars, wfc, syncVars, routerVars>>

\* _on_websocket_ready, step by step, while the guilds arrive
NextReady ==
    \/ WebsocketReady
    \/ GuildCreate
    \/ GuildWaitEnds
    \/ ReadyInitInteractions
    \/ ReadyDispatch

SpecReady == Init /\ [][NextReady]_vars

\* the event loop runs the handler whenever it can go on
SpecReadyFair ==
    /\ SpecReady
    /\ WF_vars(GuildWaitEnds)
    /\ WF_vars(ReadyInitInteractions)
    /\ WF_vars(ReadyDispatch)

\* the names of the message commands and the listeners of the component commands a
\* program registers by hand
MessageCommandNames == {"m"}

ListenerLists == {<<1>>, <<2, 1>>}

\* add_message_command(command)
RegisterMessageCommand ==
    /\ \E name \in MessageCommandNames, enabled \in BOOLEAN :
         LET r == AddMessageCommand(commands, name, enabled)
         IN  /\ commands' = r.commands
             /\ reg' = [kind |-> "message", raised |-> r.raised,
                        held |-> \E c \in commands : c.name = name,
                        kept |-> commands \subseteq r.commands,
                        same |-> commands = r.commands]
    /\ UNCHANGED <<_component_callbacks, gathered, inv>>
    /\ UNCHANGED <<wsVars, dispVars, wfc, syncVars, optVars, readyVars>>

\* add_component_callback(command), for the next component command the program made
RegisterComponentCallback ==
    /\ \E custom_ids \in ListenerLists :
         LET callback == Cardinality({p[2] : p \in _component_callbacks}) + 1
             r == AddComponentCallback(_component_callbacks, custom_ids, callback, 1)
         IN  /\ _component_callbacks' = r.callbacks
             /\ reg' = [kind |-> "component", raised |-> r.raised,
                        held |-> \E i \in 1..Len(custom_ids), p \in _component_callbacks :
                                    p[1] = custom_ids[i],
                        kept |-> _component_callbacks \subseteq r.callbacks,
                        same |-> _component_callbacks = r.callbacks]
    /\ UNCHANGED <<commands, gathered, inv>>
    /\ UNCHANGED <<wsVars, dispVars, wfc, syncVars, optVars, readyVars>>

\* the registrations a program makes by hand
NextRegister ==
    \/ AddInteraction
    \/ RegisterMessageCommand
    \/ RegisterComponentCallback

SpecRegister == Init /\ [][NextRegister]_vars

\* listeners, dispatch and the listener tasks
NextListeners ==
    \/ AddListener
    \/ Dispatch
    \/ RunTask

SpecListeners == Init /\ [][NextListeners]_vars

\* waits, their timeouts, and dispatch
NextWaits ==
    \/ WaitFor
    \/ Timeout
    \/ Dispatch

SpecWaits == Init /\ [][NextWaits]_vars

\* waits on component events and their timeouts
NextComponentWaits ==
    \/ WaitForComponent
    \/ Timeout

SpecComponentWaits == Init /\ [][NextComponentWaits]_vars

\* the command tables, the remote registry and the reconciliation passes
NextSync ==
    \/ AddInteraction
    \/ RemoteCreate
    \/ SynchroniseInteractions

SpecSync == Init /\ [][NextSync]_vars

(***************************************************************************)
(* Properties of the reconnect loop, checked under SpecWs.                 *)
(***************************************************************************)
\* the last end was the end of an active connection (ws.run raised) with an
\* exception of kind k
ActiveEnd(k) == lastEnd.active /\ lastEnd.kind = k

\* the session id and sequence of the session that ended, as resume parameters
EndedSession == [resume |-> TRUE, session_id |-> lastEnd.sid, sequence |-> lastEnd.seq]

\* after the last end the loop goes on to a connect call that carries p, and the
\* time slept between the end and that call is one of D: either the call is still
\* to come (on the way to it, params = p) or it is the last one made
NextAttempt(p, D) ==
    IF made
    THEN /\ pc \in {"connecting", "running"}
         /\ attempt.resume = p.resume
         /\ attempt.session_id = p.session_id
         /\ attempt.sequence = p.sequence
         /\ attempt.delay \in D
    ELSE /\ params = p
         /\ \/ pc = "head" /\ slept \in D
            \/ pc = "sleeping" /\ slept + SleepDelay \in D

\* the loop ended for good after the last end: no connect call is made after it
Exited == pc \in {"returned", "raised"} /\ ~made

OtherFailure ==
    \/ lastEnd.kind \in {"GatewayNotFound", "ClientError", "TimeoutError", "Exception"}
    \/ lastEnd.kind = "OSError" /\ lastEnd.code \notin ResetErrnos

RetriedAfterFailure == made /\ lastEnd.kind \notin {"none", "return"}

\* C8 as claimed: the connect call after the failure of an active connection is
\* preceded by the sleep unless the failure was an internal restart request.
C8_DelayButForRestarts ==
    (RetriedAfterFailure /\ lastEnd.active)
        => (attempt.delay = SleepDelay <=> lastEnd.kind # "WebSocketRestart")

\* C8 as the code has it: the connect call after a failure is preceded by the sleep
\* exactly when it starts a fresh session (restart request with resume=False, other
\* transport error, other Exception); the three resuming branches (restart request
\* with resume=True, close code 1000 when ready, connection reset) reconnect
\* without delay.
C8_DelayIffFresh ==
    RetriedAfterFailure
        => /\ attempt.delay \in {0, SleepDelay}
           /\ attempt.delay = SleepDelay <=> ~attempt.resume
           /\ attempt.resume <=>
                \/ lastEnd.kind = "WebSocketRestart" /\ lastEnd.resume
                \/ lastEnd.kind = "WebSocketClosed" /\ lastEnd.code = NormalClose /\ lastEnd.ready
                \/ lastEnd.kind = "OSError" /\ lastEnd.code \in ResetErrnos

\* C8 witness: a connection reset answered with a connect call without delay
C8_Witness ==
    /\ RetriedAfterFailure /\ ActiveEnd("OSError") /\ lastEnd.code = 54
    /\ attempt.resume /\ attempt.delay = 0

\* C9: once stop() has ended the active session's socket loop (ws.run returned
\* after the close), the reconnect loop exits: no connect call follows.
C9_NoAttemptAfterStop ==
    (stopped /\ lastEnd.kind = "return") => ~made

(***************************************************************************)
(* Properties of the dispatcher, checked under SpecListeners.              *)
(***************************************************************************)
\* the tasks the c-th dispatch call created, in creation order
TasksOfCall(c) == SelectSeq(tasks, LAMBDA t : t.call = c)

\* the number of on_error calls made for the i-th task
ErrorsOfTask(i) == Cardinality({k \in 1..Len(errors) : errors[k].task = i})

\* C10: a dispatch call with N listeners under the event's name starts N tasks, one
\* per listener in registration order, each with the event; on_error is called
\* once for every task whose listener raised, with that task's event as source, and
\* for no other; a raising listener leaves dispatch's caller without an exception
\* and the other tasks as they are, to run or run already.
C10_ListenerErrorsIsolated ==
    /\ \A c \in 1..Len(calls) :
         LET ts == TasksOfCall(c)
         IN  /\ Len(ts) = Len(calls[c].listeners)
             /\ \A i \in 1..Len(ts) :
                  /\ ts[i].listener = calls[c].listeners[i]
                  /\ ts[i].event = calls[c].event
                  /\ ts[i].state \in {"pending", "done"}
             /\ ~calls[c].raised
    /\ \A i \in 1..Len(tasks) :
         /\ ErrorsOfTask(i) = IF tasks[i].outcome = "raise" THEN 1 ELSE 0
         /\ tasks[i].state = "done" <=> tasks[i].outcome # "none"
    /\ \A k \in 1..Len(errors) :
         /\ errors[k].task \in 1..Len(tasks)
         /\ errors[k].source = tasks[errors[k].task].event

\* C10 witness: one dispatch with two listeners, the first raised and the second
\* returned, both run, and on_error called once
C10_Witness ==
    /\ Len(calls) >= 1
    /\ Len(calls[1].listeners) = 2
    /\ Len(tasks) >= 2
    /\ tasks[1].call = 1 /\ tasks[1].outcome = "raise"
    /\ tasks[2].call = 1 /\ tasks[2].outcome = "ok"
    /\ Len(errors) = 1 /\ errors[1].task = 1

(***************************************************************************)
(* Properties of the wait registry, checked under SpecWaits.               *)
(***************************************************************************)
\* the waits of list ws_ whose predicate the event does not satisfy, in their order
Unsatisfied(ws_, ev) == SelectSeq(ws_, LAMBDA w : ~WaitCall(w, ev))

\* the number of entries of the wait table that hold future f
EntriesOf(f) ==
    Cardinality(UNION {{<<n, i>> : i \in {j \in 1..Len(waits[n]) : waits[n][j].fut = f}} :
                       n \in EventNames})

\* C11: after a dispatch call returned, the wait list of the event's name holds
\* exactly the waits whose predicate the event did not satisfy, in their original
\* order, however many waits the event satisfied and wherever they stood.
C11_ExactRemoval ==
    \A c \in 1..Len(calls) :
        ~calls[c].raised
            => calls[c].waitsAfter = Unsatisfied(calls[c].waitsBefore, calls[c].event)

\* C12: a wait_for call whose future was resolved by a dispatched event has the
\* event as its result and no entry left in the wait table.
C12_ResolvedWaitRemoved ==
    \A f \in 1..Len(futures) :
        futures[f].state = "done" => futures[f].result # NoEvent /\ EntriesOf(f) = 0

\* C13: a wait_for call that timed out has no entry left in the wait table.
C13_TimedOutWaitRemoved ==
    \A f \in 1..Len(futures) :
        futures[f].state = "cancelled" => EntriesOf(f) = 0

\* C14: a wait_for_component call raises ValueError exactly when it was given
\* neither messages nor components, and then it registered nothing: the wait list
\* is as it was and no future was created; any other call registers one wait.
C14_NoFiltersRejected ==
    wfc.called
        => /\ wfc.raised = "ValueError" <=> (wfc.messages = {} /\ wfc.components = {})
           /\ wfc.raised = "ValueError" => wfc.after = wfc.before /\ wfc.futures = 0
           /\ wfc.raised = "none" => Len(wfc.after) = Len(wfc.before) + 1 /\ wfc.futures = 1

\* C14 witness: a call without filters made while a wait is pending on the
\* component event, which is still the only one
C14_Witness ==
    /\ wfc.called /\ wfc.raised = "ValueError"
    /\ Len(wfc.before) = 1
    /\ waits["component"] = wfc.before

(***************************************************************************)
(* Properties of the reconciliation, checked under SpecSync.               *)
(***************************************************************************)
\* the write calls of kind op the last pass made for scope s
WritesFor(op, s) == SelectSeq(lastPass.writes, LAMBDA w : w.op = op /\ w.scope = s)

\* the local commands of scope s, as references into objs
LocalOf(s) == Range(CmdsOf(interactions, s))

\* before the last pass, the remote registry of scope s lacked a command the
\* program declares for s
MissingRemotely(s) ==
    \E c \in LocalOf(s) : RemoteNamed(lastPass.remoteBefore[s], objs[c].name) = {}

\* every command of the program is declared for one scope
OneScopeEach == \A c \in 1..Len(objs) : Len(objs[c].scopes) = 1

\* C15: a pass made after a pass that ended normally, with no command added and
\* the registry untouched in between, makes no write call: no bulk call, no
\* permission update, no delete (stated for programs whose commands are each
\* declared for one scope).
C15_SecondPassWritesNothing ==
    (OneScopeEach /\ lastPass.n >= 2 /\ lastPass.repeat /\ lastPass.raised = NoRaise)
        => lastPass.writes = <<>>

\* C16: after a pass that ended normally, for every scope that lacked a declared
\* command before it: the pass made exactly one bulk call for the scope, carrying
\* the whole local set; for every local command of the scope, sub-commands and
\* group sub-commands included, the id the response gave its name is resolved to
\* the scope by the scope map; and a command declared for this scope alone holds
\* that id as its cmd_id.
C16_MissingCommandPushed ==
    \A s \in Scopes :
        (clean /\ MissingRemotely(s))
            => /\ Len(WritesFor("post", s)) = 1
               /\ WritesFor("post", s)[1].cmds = ToDict(objs, interactions, s)
               /\ \A c \in LocalOf(s) :
                    \E r \in lastPass.posted[s] :
                        /\ r.name = objs[c].name
                        /\ MapGet(_interaction_scopes, Str(r.id)) = {s}
                        /\ objs[c].scopes = <<s>> => objs[c].cmd_id = r.id

\* C16 witness: a guild whose local commands are A and the group sub-command of B
\* while its registry held A only; after the pass both have their ids
C16_Witness ==
    /\ clean
    /\ {ResolvedName(objs[c]) : c \in LocalOf(1)} = {<<"A", "", "">>, <<"B", "g", "t">>}
    /\ {r.name : r \in lastPass.remoteBefore[1]} = {"A"}
    /\ Len(WritesFor("post", 1)) = 1
    /\ \A c \in LocalOf(1) : objs[c].cmd_id # NoId
    /\ {r.name : r \in lastPass.posted[1]} = {"A", "B"}

\* C17: a pass that met a Forbidden answer ends with InteractionMissingAccess for
\* the scope that gave it, and the body of the loop still ran to its end for every
\* other scope.
C17_ForbiddenAbortsOneScope ==
    lastPass.fb # {}
        => /\ lastPass.raised.kind = "InteractionMissingAccess"
           /\ lastPass.raised.scope \in lastPass.fb
           /\ \A s \in Scopes \ lastPass.fb : s \in Range(lastPass.done)

(***************************************************************************)
(* The command router.                                                     *)
(***************************************************************************)
\* the error hook and the after-invoke hook of each handler
ErrorHookOf(h) ==
    IF h = "component" THEN "on_component_error"
    ELSE IF h = "autocomplete" THEN "on_autocomplete_error"
    ELSE "on_command_error"

AfterHookOf(h) ==
    IF h = "component" THEN "on_component"
    ELSE IF h = "autocomplete" THEN "on_autocomplete"
    ELSE "on_command"

\* the positions of inv.calls at which x was called
CallsOf(x) == {j \in 1..Len(inv.calls) : inv.calls[j] = x}

\* C18: for every handler the router invoked: if the handler raised, its kind's error
\* hook was called after it and no exception left the router; and, however the
\* handler ended, its kind's after-invoke hook ran exactly once, after the handler
C18_HandlerErrorsContained ==
    \A i \in 1..Len(inv.calls) :
        inv.calls[i] \in Handlers =>
            /\ inv.out = "raise" =>
                   /\ \E j \in CallsOf(ErrorHookOf(inv.calls[i])) : j > i
                   /\ inv.raised = "none"
                   /\ ~inv.surfaced
            /\ Cardinality(CallsOf(AfterHookOf(inv.calls[i]))) = 1
            /\ \A j \in CallsOf(AfterHookOf(inv.calls[i])) : j > i

\* C19: a PING, APPLICATION_COMMAND or AUTOCOMPLETE payload whose command id the
\* interaction-scope map does not hold is dropped: the router calls no handler and
\* no hook, and nothing is raised
C19_UnresolvedIdDropped ==
    ( /\ inv.kind = "interaction"
      /\ inv.type \in {"PING", "APPLICATION_COMMAND", "AUTOCOMPLETE"}
      /\ inv.mapped = {} ) =>
        /\ inv.calls = <<>>
        /\ inv.raised = "none"
        /\ ~inv.surfaced

\* an application-command payload with an id the map lacks arrived while commands
\* were registered for the global scope and the map held other ids
C19_Witness ==
    /\ inv.kind = "interaction"
    /\ inv.type = "APPLICATION_COMMAND"
    /\ inv.mapped = {}
    /\ _interaction_scopes # {}
    /\ GLOBAL_SCOPE \in ScopeKeys(interactions)
    /\ inv.calls = <<>>

\* C20: a payload whose declared type is none of PING, APPLICATION_COMMAND,
\* MESSAGE_COMPONENT and AUTOCOMPLETE invokes no handler and dispatches no event,
\* and its NotImplementedError is reported through on_error with the raw event
C20_UnknownTypeSurfaced ==
    ( /\ inv.kind = "interaction"
      /\ inv.type \notin {"PING", "APPLICATION_COMMAND", "MESSAGE_COMPONENT",
                                  "AUTOCOMPLETE"} ) =>
        /\ inv.calls = <<>>
        /\ inv.events = <<>>
        /\ inv.raised = "NotImplementedError"
        /\ inv.surfaced
        /\ errors # <<>>
        /\ errors[Len(errors)] = [source |-> RawInteractionCreate, task |-> 0]

\* a MODAL_SUBMIT payload carrying the id of a synchronised command arrived
C20_Witness ==
    /\ inv.kind = "interaction"
    /\ inv.type = "MODAL_SUBMIT"
    /\ inv.mapped # {}
    /\ inv.surfaced
    /\ Len(errors) >= 1

\* the events of inv.events named x
EventsOf(x) == {j \in 1..Len(inv.events) : inv.events[j] = x}

\* C21: for a MESSAGE_COMPONENT interaction whose handler, if any, returned or
\* raised: the Component event is dispatched exactly once, the component handler is
\* invoked iff one is registered for the custom id, and a Button (Select) event is
\* dispatched, once, iff the component type is BUTTON (SELECT)
C21_ComponentRouting ==
    (inv.type = "MESSAGE_COMPONENT" /\ inv.out # "cancel") =>
        /\ Cardinality(EventsOf("component")) = 1
        /\ inv.registered <=> Cardinality(CallsOf("component")) = 1
        /\ ~inv.registered => inv.calls = <<>>
        /\ Cardinality(EventsOf("button")) = (IF inv.component_type = "BUTTON" THEN 1 ELSE 0)
        /\ Cardinality(EventsOf("select")) = (IF inv.component_type = "SELECT" THEN 1 ELSE 0)

(***************************************************************************)
(* Option resolution.                                                      *)
(***************************************************************************)
\* the last option resolved was in the member cache under (guild, id), in the user
\* cache, in the role cache
InMemberCache ==
    <<"pair", resolved.guild_id[2], resolved.value[2]>> \in resolved.members

InUserCache == <<"int", resolved.value[2]>> \in resolved.users

InRoleCache == <<"int", resolved.value[2]>> \in resolved.roles

\* C22: a USER option resolves to the cached member when (guild id, value) is in the
\* member cache, otherwise to the cached user when the value is in the user cache,
\* otherwise to the raw value of the payload; it always resolves to one of them
C22_UserOptionResolution ==
    resolved.type = "USER" =>
        resolved.result =
            IF InMemberCache
            THEN [kind |-> "member",
                  key |-> <<"pair", resolved.guild_id[2], resolved.value[2]>>]
            ELSE IF InUserCache
            THEN [kind |-> "user", key |-> <<"int", resolved.value[2]>>]
            ELSE [kind |-> "raw", key |-> resolved.value]

\* a USER option whose id is in the user cache only, while the member cache holds a
\* member of that id for another guild than the payload's
C22_Witness ==
    /\ resolved.type = "USER"
    /\ ~InMemberCache
    /\ resolved.members # {}
    /\ InUserCache
    /\ resolved.result.kind = "user"

\* C28: a MENTIONABLE option resolves to the cached member or user when its id is in
\* the member cache (under guild and user) or in the user cache, otherwise to the
\* cached role when it is in the role cache, otherwise to the raw value
C28_MentionableResolution ==
    resolved.type = "MENTIONABLE" =>
        IF InMemberCache \/ InUserCache
        THEN resolved.result.kind \in {"member", "user"}
        ELSE IF InRoleCache
        THEN resolved.result = [kind |-> "role", key |-> <<"int", resolved.value[2]>>]
        ELSE resolved.result = [kind |-> "raw", key |-> resolved.value]

(***************************************************************************)
(* The readiness handler.                                                  *)
(***************************************************************************)
\* the positions of the handler's log at which it did x
StepsOf(x) == {j \in 1..Len(readiness.log) : readiness.log[j].step = x}

\* C23: the readiness loop never blocks: a handler waiting for the guild cache
\* always gets to its end
C23_ReadinessLoopExits == (readiness.pc = "waiting") ~> (readiness.pc = "done")

\* a handler left the loop by the timeout with a partial cache and went on to its end
C23_Witness ==
    /\ readiness.pc = "done"
    /\ readiness.exit = "timeout"
    /\ readiness.observed # readiness.expected_guilds
    /\ readiness.expected_guilds # {}

\* C24: a handler that reached its end ran _init_interactions, then set _ready, then
\* dispatched Ready, once each and in that order, with _ready true at the dispatch;
\* a handler that has not reached its end has dispatched no Ready
C24_ReadyOrder ==
    /\ readiness.pc = "done" =>
           /\ Cardinality(StepsOf("_init_interactions")) = 1
           /\ Cardinality(StepsOf("_ready")) = 1
           /\ Cardinality(StepsOf("Ready")) = 1
           /\ \A i \in StepsOf("_init_interactions"), j \in StepsOf("_ready"),
                 k \in StepsOf("Ready") : i < j /\ j < k /\ readiness.log[k].ready
           /\ _ready
    /\ readiness.pc # "done" => StepsOf("Ready") = {}

\* the second handshake-complete event of a run was handled to its end
C24_Witness ==
    /\ readiness.n = 2
    /\ readiness.pc = "done"
    /\ Cardinality(StepsOf("Ready")) = 1

\* C27: the loop is left by the full-cache exit only when the cached guild ids are
\* the expected guild ids
C27_FullCacheMeansEqualSets ==
    readiness.exit = "full" => readiness.observed = readiness.expected_guilds

(***************************************************************************)
(* Registration.                                                           *)
(***************************************************************************)
\* C25: in every scope no two registered commands have the same resolved name, no
\* two message commands have the same name, and no custom id has two callbacks; a
\* registration call one of whose keys was registered already raised, and every call
\* left the entries registered before it in place
C25_RegistrationsUnique ==
    /\ \A i \in 1..Len(interactions) :
           \A j, k \in 1..Len(interactions[i].cmds) :
               <<objs[interactions[i].cmds[j]].name, objs[interactions[i].cmds[j]].group,
                 objs[interactions[i].cmds[j]].sub>>
                 = <<objs[interactions[i].cmds[k]].name, objs[interactions[i].cmds[k]].group,
                     objs[interactions[i].cmds[k]].sub>>
               => j = k
    /\ \A i, j \in 1..Len(interactions) : interactions[i].scope = interactions[j].scope => i = j
    /\ \A c, d \in commands : c.name = d.name => c = d
    /\ \A p, q \in _component_callbacks : p[1] = q[1] => p = q
    /\ reg.held => reg.raised
    /\ reg.kept

\* a message command, a component callback and a command were registered, and the
\* last call gave a command name its scope already had and was refused
C25_Witness ==
    /\ reg.kind = "interaction"
    /\ reg.held
    /\ reg.raised
    /\ commands # {}
    /\ _component_callbacks # {}
    /\ Len(objs) = 2

(***************************************************************************)
(* Waits, again.                                                           *)
(***************************************************************************)
\* the futures of the waits that dispatch call c found satisfied
MatchedIn(c) ==
    {calls[c].waitsBefore[i].fut :
        i \in {k \in 1..Len(calls[c].waitsBefore) :
                 calls[c].event.data \in calls[c].waitsBefore[k].checks}}

\* the futures of the waits that dispatch call c evaluated
EvaluatedIn(c) == {calls[c].waitsBefore[i].fut : i \in 1..Len(calls[c].waitsBefore)}

\* C26: a wait whose predicate matched in one dispatch call is evaluated by no later
\* dispatch call
C26_WaitConsumedOnce ==
    \A c1, c2 \in 1..Len(calls) :
        c1 < c2 => MatchedIn(c1) \cap EvaluatedIn(c2) = {}

(***************************************************************************)
(* The command router, again.                                              *)
(***************************************************************************)
\* the last event routed was a command payload whose id and invoked name resolved to
\* a registered command
ResolvedCommand ==
    /\ inv.kind = "interaction"
    /\ inv.type \in {"PING", "APPLICATION_COMMAND", "AUTOCOMPLETE"}
    /\ inv.found

\* the positions of inv.calls at which a handler was called
HandlerCalls == {j \in 1..Len(inv.calls) : inv.calls[j] \in Handlers}

\* C29, as stated: for a resolved command interaction exactly one handler is invoked:
\* the autocomplete handler when an option is focused, the main handler when none is
C29_ExactlyOneHandler ==
    ResolvedCommand =>
        /\ Cardinality(HandlerCalls) = 1
        /\ \A j \in HandlerCalls :
               inv.calls[j] = (IF inv.focused # "" THEN "autocomplete" ELSE "command")

\* C29, amended: for a resolved command interaction, when an option is focused and
\* the command has an autocomplete handler under that option's name, that handler
\* and no other is invoked; when an option is focused and no handler is registered
\* under its name, no handler is invoked and on_autocomplete_error is called; when
\* no option is focused, the main handler and no other is invoked
C29_HandlerByFocus ==
    ResolvedCommand =>
        /\ (inv.focused # "" /\ inv.has_callback) =>
               /\ Cardinality(HandlerCalls) = 1
               /\ \A j \in HandlerCalls : inv.calls[j] = "autocomplete"
        /\ (inv.focused # "" /\ ~inv.has_callback) =>
               /\ HandlerCalls = {}
               /\ inv.calls = <<"on_autocomplete_error", "on_error", "on_autocomplete">>
        /\ inv.focused = "" =>
               /\ Cardinality(HandlerCalls) = 1
               /\ \A j \in HandlerCalls : inv.calls[j] = "command"

\* an option was focused for a command that has an autocomplete handler under its
\* name, and that handler ran
C29_Witness ==
    /\ ResolvedCommand
    /\ inv.focused = "opt"
    /\ inv.has_callback
    /\ inv.calls = <<"autocomplete", "on_autocomplete">>

(***************************************************************************)
(* The reconciliation, again.                                              *)
(***************************************************************************)
\* the commands of a registry, without their ids
ContentOf(registry) == {[name |-> r.name, options |-> r.options] : r \in registry}

\* before the last pass, the local command set of scope s differed from the remote
\* one: a command introduced or changed locally, or one removed locally
DiffersRemotely(s) == ToDict(objs, interactions, s) # ContentOf(lastPass.remoteBefore[s])

\* C30: after a pass that ended normally, every scope whose local command set
\* differed from the remote one was pushed with one bulk call, commands removed
\* locally included, and no scope without a difference was pushed.
C30_DirtyScopePushed ==
    \A s \in Scopes :
        clean => (DiffersRemotely(s) <=> Len(WritesFor("post", s)) = 1)

\* some command registered locally declares a permission overwrite for guild g
Targeted(g) == \E s \in Scopes : \E c \in LocalOf(s) : g \in objs[c].permissions

\* C31: after a pass that ended normally, for every guild targeted by a permission
\* overwrite of a local command the pass made exactly one bulk permission-update
\* call, however many scopes it iterated over.
C31_OnePermissionCallPerGuild ==
    \A g \in Guilds :
        (clean /\ Targeted(g)) => Len(WritesFor("permissions", g)) = 1

\* the ids of the commands of scope s the last pass deleted
DeletedIn(s) == {WritesFor("delete", s)[k].ids[1] : k \in 1..Len(WritesFor("delete", s))}

\* the remote command r of scope s is matched by a local command of s
MatchedLocally(s, r) == \E c \in LocalOf(s) : objs[c].name = r.name

\* C32: a pass made with the delete policy off makes no delete call; after a pass
\* that ended normally with the policy on, every command the registry of a scope
\* held that no local command matches was deleted, and no command matched by a
\* local one, held before the pass or pushed by it, was deleted.
C32_OnlyOrphansDeleted ==
    \A s \in Scopes :
        /\ (lastPass.n >= 1 /\ ~del_unused_app_cmd) => WritesFor("delete", s) = <<>>
        /\ (clean /\ del_unused_app_cmd) =>
              /\ \A r \in lastPass.remoteBefore[s] :
                    ~MatchedLocally(s, r) => r.id \in DeletedIn(s)
              /\ \A r \in lastPass.remoteBefore[s] \cup lastPass.posted[s] :
                    MatchedLocally(s, r) => r.id \notin DeletedIn(s)

(***************************************************************************)
(* The wait registry, again.                                               *)
(***************************************************************************)
\* C33: every dispatch call returns normally, whatever number of pending waits the
\* event satisfies and wherever they stand in the list: the removal of the waits
\* raises no exception.
C33_DispatchReturns ==
    \A c \in 1..Len(calls) : ~calls[c].raised

(***************************************************************************)
(* The readiness handler, again.                                           *)
(***************************************************************************)
\* the pass made by _init_interactions in this run of the handler failed
InitFailed == readiness.failed # "none"

\* C34: when the pass of _init_interactions fails with an exception, a missing
\* access to a scope included, the exception is forwarded to on_error, once, and to
\* nobody else, and the handler still gets to its end: _ready is set and Ready is
\* dispatched.
C34_StartupSurvivesSyncFailure ==
    /\ [](InitFailed => Cardinality(StepsOf("on_error")) = 1)
    /\ (readiness.pc = "mark" /\ InitFailed)
          ~> (/\ readiness.pc = "done"
              /\ InitFailed
              /\ _ready
              /\ Cardinality(StepsOf("Ready")) = 1)

\* a handler whose reconciliation pass had no access to a scope reached its end
C34_Witness ==
    /\ readiness.pc = "done"
    /\ readiness.failed = "InteractionMissingAccess"
    /\ StepsOf("on_error") # {}
    /\ StepsOf("Ready") # {}
    /\ _ready

(***************************************************************************)
(* Registration, again.                                                    *)
(***************************************************************************)
\* C35: a registration call that raised the duplicate error left the table it works
\* on as it was: nothing of the command was registered under the scopes or custom
\* ids that came before the duplicate one.
C35_FailedRegistrationChangesNothing ==
    reg.raised => reg.same

====
